---- MODULE Spec2Model ----
(***************************************************************************)
(* Trivia and suggestion pipeline of the trip planner: the quiz endpoint   *)
(* POST /api/quiz/generate with its caches, validation, exclusion,         *)
(* regeneration and fallback (server/routes.ts), the other TTL caches, the *)
(* client's loading step that keeps the seen-question ids, the suggestions *)
(* endpoint POST /api/suggestions/generate with its ranking and curated    *)
(* fallback, the two fetches of getCityContext, and the helper functions   *)
(* shuffleOptions, generateQuestionId and isValidFunFact called alone;     *)
(* further the quiz endpoint serving two requests at once, geocodeCached   *)
(* with overlapping lookups, the suggestions endpoint called page after    *)
(* page, and on the client the trip context (suggestions, itinerary with   *)
(* undo and redo), the enrichment pool of the suggestions page and the     *)
(* loading screen with its requests in flight.                             *)
(*                                                                         *)
(* Strings are sequences of UTF-16 code units.  The clock counts seconds  *)
(* (the source counts milliseconds; 1000 ms is one unit here).             *)
(***************************************************************************)
EXTENDS Integers, Sequences, FiniteSets, TLC

VARIABLES
    now,               \* Date.now(), in seconds
    hasPlacesKey,      \* process.env.GOOGLE_PLACES_API_KEY is set
    cityResolveCache,  \* Map: lowercased trimmed city text -> {data, ts}
    cityContextCache,  \* Map: placeId -> {data, ts}
    triviaPoolCache,   \* Map: trivia cache key -> {questions, ts}
    poolCache,         \* Map: lowercased trimmed city -> {places, ts}
    enrichmentCache,   \* Map: placeId -> {data, ts}
    geocodeInternalCache, \* Map: lowercased trimmed address -> coordinates or null
    req,               \* the quiz handler's locals, per request in flight
    aux,               \* the endpoint or function exercised, and its last call
    seen,              \* client localStorage: city -> stored seen-question ids
    client,            \* the client's loading step
    trip,              \* TripProvider: the state of the trip context
    page               \* SuggestionsPage: enrichingRef and the enrichment pools

vars == <<now, hasPlacesKey, cityResolveCache, cityContextCache, triviaPoolCache,
          poolCache, enrichmentCache, geocodeInternalCache, req, aux, seen, client,
          trip, page>>

-----------------------------------------------------------------------------
(* Strings *)

Range(s) == {s[i] : i \in DOMAIN s}

SetMin(S) == CHOOSE x \in S : \A y \in S : x <= y

SetMax(S) == CHOOSE x \in S : \A y \in S : x >= y

MinOf(a, b) == IF a < b THEN a ELSE b

\* String.prototype.toLowerCase on the ASCII letters
toLowerCase(s) ==
    [i \in 1..Len(s) |-> IF s[i] >= 65 /\ s[i] <= 90 THEN s[i] + 32 ELSE s[i]]

IsSpace(c) == c \in {9, 10, 11, 12, 13, 32}

\* String.prototype.trim
trim(s) ==
    LET keep == {i \in 1..Len(s) : ~IsSpace(s[i])}
    IN  IF keep = {} THEN <<>> ELSE SubSeq(s, SetMin(keep), SetMax(keep))

\* String.prototype.includes
includes(s, sub) ==
    \E i \in 0..(Len(s) - Len(sub)) : SubSeq(s, i + 1, i + Len(sub)) = sub

\* RegExp /a.*b/ tested on s: a occurs and b occurs after the end of that a
includesThen(s, a, b) ==
    \E i \in 0..(Len(s) - Len(a)) :
        /\ SubSeq(s, i + 1, i + Len(a)) = a
        /\ includes(SubSeq(s, i + Len(a) + 1, Len(s)), b)

\* decimal digits of a natural number
RECURSIVE DecDigits(_)
DecDigits(n) ==
    IF n < 10 THEN <<48 + n>> ELSE DecDigits(n \div 10) \o <<48 + (n % 10)>>

Bar == <<124>>                      \* "|"

S_standard == <<115, 116, 97, 110, 100, 97, 114, 100>>          \* "standard"

S_challenge == <<99, 104, 97, 108, 108, 101, 110, 103, 101>>    \* "challenge"

S_theCity == <<116, 104, 101, 32, 99, 105, 116, 121>>           \* "the city"

-----------------------------------------------------------------------------
(* JSON values as the model or a caller may supply them.  t is the type;   *)
(* s the text of a string; n twice the value of a number (so 3 is 1.5);    *)
(* a the elements of an array.                                             *)

Str(s) == [t |-> "str", s |-> s, n |-> 0, a |-> <<>>]

Num2(k) == [t |-> "num", s |-> <<>>, n |-> k, a |-> <<>>]

Num(k) == Num2(2 * k)

Null == [t |-> "null", s |-> <<>>, n |-> 0, a |-> <<>>]

Undef == [t |-> "undef", s |-> <<>>, n |-> 0, a |-> <<>>]

Arr(items) == [t |-> "arr", s |-> <<>>, n |-> 0, a |-> items]

\* JavaScript truthiness
Truthy(j) ==
    CASE j.t = "str" -> j.s # <<>>
      [] j.t = "num" -> j.n # 0
      [] j.t = "arr" -> TRUE
      [] OTHER -> FALSE

\* String(j) as a template literal or RegExp.test renders it (the values
\* used here: strings and whole non-negative numbers)
JsToString(j) ==
    CASE j.t = "str" -> j.s
      [] j.t = "num" /\ j.n >= 0 /\ j.n % 2 = 0 -> DecDigits(j.n \div 2)
      [] OTHER -> <<>>

-----------------------------------------------------------------------------
(* generateQuestionId: 32-bit rolling hash, rendered in base 36.  A 32-bit *)
(* word is kept as <<high 16 bits, low 16 bits>>.                          *)

Word == 65536

\* variant of the step that loses the carry into the high half
HashStepNoCarry(h, chr) ==
    <<(h[1] * 31) % Word, (h[2] * 31 + chr) % Word>>

\* hash = ((hash << 5) - hash) + chr; hash |= 0
HashStep(h, chr) ==
    LET lo == h[2] * 31 + chr
        hi == h[1] * 31 + (lo \div Word)
    IN  <<hi % Word, lo % Word>>

\* the for loop, on its variables (hash, i)
RECURSIVE HashLoop(_, _)
HashLoop(loop, raw) ==
    IF loop.i > Len(raw) THEN loop.hash
    ELSE HashLoop([hash |-> HashStep(loop.hash, raw[loop.i]), i |-> loop.i + 1], raw)

HashFold(h, raw, i) == HashLoop([hash |-> h, i |-> i], raw)

\* Math.abs of the signed 32-bit value, as an unsigned word pair
AbsWord(h) ==
    IF h[1] < 32768 THEN h
    ELSE <<(65535 - h[1] + (IF h[2] = 0 THEN 1 ELSE 0)) % Word, (Word - h[2]) % Word>>

Div36(u) ==
    LET r == u[1] % 36
    IN  <<u[1] \div 36, (r * Word + u[2]) \div 36>>

Mod36(u) == ((u[1] % 36) * Word + u[2]) % 36

Digit36(d) == IF d < 10 THEN 48 + d ELSE 87 + d

RECURSIVE Base36(_)
Base36(u) ==
    IF u = <<0, 0>> THEN <<>> ELSE Base36(Div36(u)) \o <<Digit36(Mod36(u))>>

\* Number.prototype.toString(36)
toString36(u) == IF u = <<0, 0>> THEN <<48>> ELSE Base36(u)

generateQuestionId(cityPlaceId, difficulty, questionText) ==
    LET raw == cityPlaceId \o Bar \o difficulty \o Bar \o questionText
    IN  toString36(AbsWord(HashFold(<<0, 0>>, raw, 1)))

-----------------------------------------------------------------------------
(* Trivia questions.  A candidate is what the model supplied for one array *)
(* element: nul marks a null element, the other fields are JSON values.    *)
(* A validated question has the same shape.                                *)

Cand(question, options, correctIndex, funFact) ==
    [nul |-> FALSE, question |-> question, options |-> options,
     correctIndex |-> correctIndex, funFact |-> funFact]

NullCand == [nul |-> TRUE, question |-> Undef, options |-> Undef,
             correctIndex |-> Undef, funFact |-> Undef]

P_capital == <<119, 104, 97, 116, 32, 105, 115, 32, 116, 104, 101, 32, 99, 97, 112,
               105, 116, 97, 108>>                 \* "what is the capital"

P_currency == <<119, 104, 105, 99, 104, 32, 99, 117, 114, 114, 101, 110, 99, 121>>
                                                   \* "which currency"

P_language == <<119, 104, 97, 116, 32, 108, 97, 110, 103, 117, 97, 103, 101>>
                                                   \* "what language"

P_spoken == <<115, 112, 111, 107, 101, 110>>       \* "spoken"

P_continent == <<119, 104, 97, 116, 32, 99, 111, 110, 116, 105, 110, 101, 110, 116>>
                                                   \* "what continent"

P_population == <<119, 104, 97, 116, 32, 105, 115, 32, 116, 104, 101, 32, 112, 111,
                  112, 117, 108, 97, 116, 105, 111, 110>>
                                                   \* "what is the population"

P_country == <<119, 104, 105, 99, 104, 32, 99, 111, 117, 110, 116, 114, 121>>
                                                   \* "which country"

P_located == <<108, 111, 99, 97, 116, 101, 100>>   \* "located"

\* GENERIC_PATTERNS, each case-insensitive
MatchesGeneric(text) ==
    LET low == toLowerCase(text)
    IN  \/ includes(low, P_capital)
        \/ includes(low, P_currency)
        \/ includesThen(low, P_language, P_spoken)
        \/ includes(low, P_continent)
        \/ includes(low, P_population)
        \/ includesThen(low, P_country, P_located)

\* typeof q.correctIndex === "number" and neither < 0 nor > 3
CorrectIndexAccepted(ci) == ci.t = "num" /\ ~(ci.n < 0) /\ ~(ci.n > 6)

\* new Set(q.options.map(o => o.toLowerCase().trim())); a non-string element
\* makes o.toLowerCase() throw, which the filter's catch turns into a reject
OptionsAccepted(options) ==
    /\ options.t = "arr"
    /\ Len(options.a) = 4
    /\ \A i \in 1..4 : options.a[i].t = "str"
    /\ Cardinality({trim(toLowerCase(options.a[i].s)) : i \in 1..4}) = 4

\* !q.funFact || q.funFact.trim().length < 5 rejects; .trim() of a truthy
\* non-string throws and is caught
FunFactAccepted(funFact) ==
    /\ Truthy(funFact)
    /\ funFact.t = "str"
    /\ ~(Len(trim(funFact.s)) < 5)

\* the filter callback of validateTriviaQuestions
TriviaFilter(q) ==
    /\ ~q.nul
    /\ Truthy(q.question)
    /\ OptionsAccepted(q.options)
    /\ CorrectIndexAccepted(q.correctIndex)
    /\ FunFactAccepted(q.funFact)
    /\ ~MatchesGeneric(JsToString(q.question))

SwapAt(f, i, j) == [f EXCEPT ![i] = f[j], ![j] = f[i]]

\* the Fisher-Yates loop over [0, 1, 2, 3]; js = <<j at i = 3, j at i = 2,
\* j at i = 1>> are the values of Math.floor(Math.random() * (i + 1))
FisherYates(js) ==
    LET s3 == SwapAt(<<0, 1, 2, 3>>, 4, js[1] + 1)
        s2 == SwapAt(s3, 3, js[2] + 1)
    IN  SwapAt(s2, 2, js[3] + 1)

\* Array.prototype.indexOf (strict equality), -1 when absent
indexOf(arr, x) ==
    LET at == {k \in 1..Len(arr) : arr[k] = x}
    IN  IF at = {} THEN -1 ELSE SetMin(at) - 1

\* q.options[q.correctIndex]: undefined unless the index names an element
ElementAt(options, ci) ==
    IF ci.t = "num" /\ ci.n % 2 = 0 /\ ci.n >= 0 /\ ci.n \div 2 < Len(options.a)
    THEN options.a[(ci.n \div 2) + 1]
    ELSE Undef

\* variant that moves the options and leaves correctIndex where it was
shuffleKeepsIndex(q, js) ==
    LET indices == FisherYates(js)
    IN  [q EXCEPT !.options = Arr([k \in 1..4 |-> q.options.a[indices[k] + 1]])]

shuffleOptions(q, js) ==
    LET correctAnswer == ElementAt(q.options, q.correctIndex)
        indices == FisherYates(js)
        shuffled == [k \in 1..4 |-> q.options.a[indices[k] + 1]]
    IN  [q EXCEPT !.options = Arr(shuffled),
                  !.correctIndex = Num(indexOf(shuffled, correctAnswer))]

\* the 24 outcomes of the random draws of one shuffle, numbered 0..23;
\* number 0 leaves the order as it is
Draw(rank) ==
    <<3 - ((rank % 24) \div 6), 2 - ((rank % 6) \div 2), 1 - (rank % 2)>>

\* Math.random as a stream of draws: stream st gives the n-th shuffle that a
\* handler step performs the draw numbered (st - 1) * n + n \div 6
StreamDraw(st, n) == Draw((st - 1) * n + n \div 6)

\* questions.map(shuffleOptions) under stream st, off shuffles already done
ShuffleAll(questions, st, off) ==
    [k \in 1..Len(questions) |-> shuffleOptions(questions[k], StreamDraw(st, off + k))]

validateTriviaQuestions(questions, st) ==
    ShuffleAll(SelectSeq(questions, TriviaFilter), st, 0)

\* variant of the guard that rejects a batch as soon as one answer is first
checkRejectsAnyZero(questions) ==
    IF Len(questions) < 4 THEN TRUE
    ELSE ~(\E k \in 1..Len(questions) : questions[k].correctIndex = Num(0))

checkAnswerDistribution(questions) ==
    IF Len(questions) < 4 THEN TRUE
    ELSE ~(\A k \in 1..Len(questions) : questions[k].correctIndex = Num(0))

-----------------------------------------------------------------------------
(* safeJsonParse.  The model's text is kept as its wrapping (bare JSON,    *)
(* JSON inside a code fence, JSON inside prose) and the shape of its JSON  *)
(* body: "array" of candidates, "objQuestions" {"questions": [...]},       *)
(* "objBad" {"questions": "..."}, "objOther" {}, "scalar", "truncated" (an *)
(* array cut off inside an element, brackets present) and "empty".         *)

Content(wrap, shape, items) == [wrap |-> wrap, shape |-> shape, items |-> items]

Parsed(t, q, items) == [t |-> t, q |-> q, items |-> items]

ParsedNull == Parsed("null", "none", <<>>)

\* JSON.parse of a well-formed body
ParseBody(content) ==
    CASE content.shape = "array" -> Parsed("arr", "none", content.items)
      [] content.shape = "objQuestions" -> Parsed("obj", "arr", content.items)
      [] content.shape = "objBad" -> Parsed("obj", "str", <<>>)
      [] content.shape = "objOther" -> Parsed("obj", "none", <<>>)
      [] content.shape = "objEnrich" -> Parsed("obj", "none", content.items)
      [] OTHER -> Parsed("scalar", "none", <<>>)

safeJsonParse(content) ==
    IF content.wrap \in {"bare", "fenced"} /\ content.shape \notin {"truncated", "empty"}
    THEN ParseBody(content)
    ELSE \* JSON.parse threw: first "[" to last "]", else first "{" to last "}"
         CASE content.shape \in {"array", "objQuestions"} ->
                  Parsed("arr", "none", content.items)
           [] content.shape = "truncated" -> ParsedNull
           [] content.shape \in {"objBad", "objOther", "objEnrich"} -> ParseBody(content)
           [] OTHER -> ParsedNull

\* if (!Array.isArray(parsed)) parsed = parsed?.questions || [];
\* the result is what validateTriviaQuestions is called on
CandidateList(parsed) ==
    CASE parsed.t = "arr" -> Parsed("arr", "none", parsed.items)
      [] parsed.t = "obj" /\ parsed.q = "arr" -> Parsed("arr", "none", parsed.items)
      [] parsed.t = "obj" /\ parsed.q = "str" -> Parsed("str", "none", <<>>)
      [] OTHER -> Parsed("arr", "none", <<>>)

-----------------------------------------------------------------------------
(* Fallback store.  The curated texts are abbreviated: question i of a     *)
(* curated city is "<name>#<i>", its options are "A".."D" and its funFact  *)
(* is one fixed sentence; the correctIndex values are the source's.        *)

S_newYork == <<110, 101, 119, 32, 121, 111, 114, 107>>    \* "new york"

S_paris == <<112, 97, 114, 105, 115>>                     \* "paris"

S_rome == <<114, 111, 109, 101>>                          \* "rome"

S_tokyo == <<116, 111, 107, 121, 111>>                    \* "tokyo"

S_chicago == <<99, 104, 105, 99, 97, 103, 111>>           \* "chicago"

CuratedNames == <<S_newYork, S_paris, S_rome, S_tokyo, S_chicago>>

CuratedCorrect ==
    <<<<1, 2, 1, 2, 0, 1, 1, 3>>, <<1, 3, 2, 2, 1, 2, 1, 2>>, <<1, 2, 2, 1, 1, 2, 3, 1>>,
      <<2, 2, 2, 2, 1, 2, 2, 1>>, <<1, 1, 2, 1, 2, 1, 1, 2>>>>

FourOptions == Arr(<<Str(<<65>>), Str(<<66>>), Str(<<67>>), Str(<<68>>)>>)

S_fact == <<70, 97, 99, 116, 32, 49, 46>>                 \* "Fact 1."

CURATED_QUESTIONS(c) ==
    [i \in 1..8 |-> Cand(Str(CuratedNames[c] \o <<35, 48 + i>>), FourOptions,
                         Num(CuratedCorrect[c][i]), Str(S_fact))]

GenericQuestions(city) ==
    [i \in 1..5 |-> Cand(Str(<<103, 48 + i, 58>> \o city), FourOptions, Num(0),
                         Str(S_fact))]

getFallbackQuestions(city) ==
    LET key == trim(toLowerCase(city))
        hits == {c \in 1..5 : includes(key, CuratedNames[c]) \/ includes(CuratedNames[c], key)}
    IN  IF hits # {} THEN CURATED_QUESTIONS(SetMin(hits)) ELSE GenericQuestions(city)

-----------------------------------------------------------------------------
(* Caches: JavaScript Maps, kept as functions on the keys present *)

EmptyMap == [k \in {} |-> 0]

Has(m, k) == k \in DOMAIN m

Put(m, k, v) == [x \in (DOMAIN m) \cup {k} |-> IF x = k THEN v ELSE m[x]]

Delete(m, k) == [x \in (DOMAIN m) \ {k} |-> m[x]]

CITY_CACHE_TTL == 24 * 60 * 60

TRIVIA_POOL_TTL == 24 * 60 * 60

ENRICHMENT_CACHE_TTL == 30 * 24 * 60 * 60

POOL_CACHE_TTL == 60 * 60

\* variant of the freshness test that still serves an entry of age TTL
FreshThroughTTL(m, k, ttl) == Has(m, k) /\ now - m[k].ts <= ttl

\* cached && Date.now() - cached.ts < ttl
Fresh(m, k, ttl) == Has(m, k) /\ now - m[k].ts < ttl

-----------------------------------------------------------------------------
(* resolveCity and getCityContext.  An upstream outcome of resolveCity is  *)
(* a failure (network error, timeout, non-2xx, no place) or the label and  *)
(* id of the first place; of getCityContext, the result lists of the two   *)
(* queries (a failed query gives the empty list).                          *)

ResolveFail == [ok |-> FALSE, cityLabel |-> <<>>, placeId |-> <<>>]

ResolveOk(label, id) == [ok |-> TRUE, cityLabel |-> label, placeId |-> id]

\* the value returned, the cache afterwards, and whether the provider was called
resolveCity(cityText, out) ==
    LET cacheKey == trim(toLowerCase(cityText))
    IN  IF Fresh(cityResolveCache, cacheKey, CITY_CACHE_TTL)
        THEN [found |-> TRUE, data |-> cityResolveCache[cacheKey].data,
              cache |-> cityResolveCache, called |-> FALSE]
        ELSE IF ~hasPlacesKey
        THEN [found |-> FALSE, data |-> ResolveFail, cache |-> cityResolveCache,
              called |-> FALSE]
        ELSE IF ~out.ok
        THEN [found |-> FALSE, data |-> ResolveFail, cache |-> cityResolveCache,
              called |-> TRUE]
        ELSE [found |-> TRUE, data |-> out,
              cache |-> Put(cityResolveCache, cacheKey, [data |-> out, ts |-> now]),
              called |-> TRUE]

Poi(placeId, name) == [placeId |-> placeId, name |-> name]

\* results.flat() into a Map keyed by placeId, first occurrence kept
RECURSIVE DedupePois(_, _)
DedupePois(pois, kept) ==
    IF pois = <<>> THEN kept
    ELSE LET poi == Head(pois)
             take == /\ Len(poi.name) >= 3
                     /\ \A k \in 1..Len(kept) : kept[k].placeId # poi.placeId
         IN  DedupePois(Tail(pois), IF take THEN Append(kept, poi) ELSE kept)

MAX_CONTEXT_POIS == 20

MergeContext(results1, results2) ==
    LET deduped == DedupePois(results1 \o results2, <<>>)
    IN  SubSeq(deduped, 1, MinOf(Len(deduped), MAX_CONTEXT_POIS))

getCityContext(placeId, cityLabel, out) ==
    IF Fresh(cityContextCache, placeId, CITY_CACHE_TTL)
    THEN [data |-> cityContextCache[placeId].data, cache |-> cityContextCache,
          called |-> FALSE]
    ELSE IF ~hasPlacesKey
    THEN [data |-> [cityLabel |-> cityLabel, placeId |-> placeId, pois |-> <<>>],
          cache |-> cityContextCache, called |-> FALSE]
    ELSE LET ctx == [cityLabel |-> cityLabel, placeId |-> placeId,
                     pois |-> MergeContext(out[1], out[2])]
         IN  [data |-> ctx,
              cache |-> Put(cityContextCache, placeId, [data |-> ctx, ts |-> now]),
              called |-> TRUE]

\* the two fetches of getCityContext, taken one settlement at a time: an
\* upstream outcome of a fetch is a rejection, the abort after FETCH_TIMEOUT,
\* a non-2xx status, a body without places, or a body with places (a place
\* without id or displayName.text has the empty string there)
Rejected == [kind |-> "rejected", places |-> <<>>]

TimedOut == [kind |-> "timeout", places |-> <<>>]

Status == [kind |-> "status", places |-> <<>>]

NoPlaces == [kind |-> "noPlaces", places |-> <<>>]

Places(places) == [kind |-> "places", places |-> places]

FETCH_TIMEOUT == 5

\* the array one query's callback resolves to
FetchedList(outcome) == IF outcome.kind = "places" THEN outcome.places ELSE <<>>

Unsettled == [done |-> FALSE, list |-> <<>>]

\* variant: results collected in the order the fetches complete
SettleByArrival(results, i, list) ==
    IF ~results[1].done THEN [results EXCEPT ![1] = [done |-> TRUE, list |-> list]]
    ELSE [results EXCEPT ![2] = [done |-> TRUE, list |-> list]]

\* Promise.all: the value of the i-th promise goes to slot i
Settle(results, i, list) == [results EXCEPT ![i] = [done |-> TRUE, list |-> list]]

\* the context built from the settled results
BuildContext(placeId, cityLabel, results) ==
    [cityLabel |-> cityLabel, placeId |-> placeId,
     pois |-> MergeContext(results[1].list, results[2].list)]

-----------------------------------------------------------------------------
(* isValidFunFact *)

\* the phrases of BANNED_FUNFACT_PHRASES, in the source's order
BANNED_FUNFACT_PHRASES ==
    <<
       <<112, 111, 112, 117, 108, 97, 114, 32, 115, 112, 111, 116>>,
       <<110, 111, 116, 97, 98, 108, 101>>,
       <<100, 101, 115, 116, 105, 110, 97, 116, 105, 111, 110>>,
       <<109, 117, 115, 116, 45, 118, 105, 115, 105, 116>>,
       <<109, 117, 115, 116, 32, 118, 105, 115, 105, 116>>,
       <<112, 101, 114, 102, 101, 99, 116, 32, 102, 111, 114>>,
       <<103, 114, 101, 97, 116, 32, 112, 108, 97, 99, 101>>,
       <<118, 105, 115, 105, 116, 111, 114, 115>>,
       <<97, 116, 109, 111, 115, 112, 104, 101, 114, 101>>,
       <<97, 32, 112, 111, 112, 117, 108, 97, 114>>,
       <<119, 101, 108, 108, 45, 107, 110, 111, 119, 110>>,
       <<119, 101, 108, 108, 32, 107, 110, 111, 119, 110>>,
       <<102, 97, 109, 111, 117, 115, 32, 102, 111, 114, 32, 98, 101, 105, 110, 103>>,
       <<119, 111, 114, 116, 104, 32, 97, 32, 118, 105, 115, 105, 116>>,
       <<109, 117, 115, 116, 45, 115, 101, 101>>,
       <<109, 117, 115, 116, 32, 115, 101, 101>> >>

\* the units of the hasMeasurement pattern
MeasurementUnits ==
    {
       <<109, 101, 116, 101, 114>>,
       <<109, 101, 116, 114, 101>>,
       <<102, 111, 111, 116>>,
       <<102, 101, 101, 116>>,
       <<116, 111, 110>>,
       <<107, 105, 108, 111>>,
       <<109, 105, 108, 101>>,
       <<97, 99, 114, 101>>,
       <<121, 101, 97, 114>>,
       <<99, 101, 110, 116, 117, 114>>,
       <<105, 110, 99, 104>>,
       <<112, 111, 117, 110, 100>>,
       <<104, 101, 99, 116, 97, 114, 101>>,
       <<115, 113, 117, 97, 114, 101>>,
       <<99, 117, 98, 105, 99>> }

IsDigit(c) == c >= 48 /\ c <= 57

IsUpper(c) == c >= 65 /\ c <= 90

IsLower(c) == c >= 97 /\ c <= 122

\* \w
IsWordChar(c) == IsDigit(c) \/ IsUpper(c) \/ IsLower(c) \/ c = 95

\* \b in front of the word character at position i
WordStartsAt(s, i) == i = 1 \/ ~IsWordChar(s[i - 1])

\* \b behind the word character at position j
WordEndsAt(s, j) == j = Len(s) \/ ~IsWordChar(s[j + 1])

StartsWithAt(s, sub, i) ==
    i >= 1 /\ i + Len(sub) - 1 <= Len(s) /\ SubSeq(s, i, i + Len(sub) - 1) = sub

\* fact.split(/\s+/).filter(Boolean).length
WordCount(s) ==
    Cardinality({i \in 1..Len(s) : ~IsSpace(s[i]) /\ (i = 1 \/ IsSpace(s[i - 1]))})

IsStop(c) == c \in {46, 33, 63}                      \* . ! ?

\* fact.split(/[.!?]+/).filter(s => s.trim().length > 0).length
SentenceCount(s) ==
    Cardinality({i \in 1..Len(s) :
        /\ ~IsStop(s[i])
        /\ i = 1 \/ IsStop(s[i - 1])
        /\ \E j \in i..Len(s) :
               ~IsSpace(s[j]) /\ \A m \in i..j : ~IsStop(s[m])})

\* /\b\d{1,}/
hasNumber(s) == \E i \in 1..Len(s) : IsDigit(s[i]) /\ WordStartsAt(s, i)

\* /\b(1[0-9]{3}|2[0-9]{3})\b/
hasYear(s) ==
    \E i \in 1..(Len(s) - 3) :
        /\ WordStartsAt(s, i)
        /\ s[i] \in {49, 50}
        /\ \A m \in (i + 1)..(i + 3) : IsDigit(s[m])
        /\ WordEndsAt(s, i + 3)

\* /\b\d+[\s-]?(meter|metre|...)/i
hasMeasurement(s) ==
    \E i \in 1..Len(s), j \in 1..Len(s) :
        /\ i <= j
        /\ WordStartsAt(s, i)
        /\ \A m \in i..j : IsDigit(s[m])
        /\ \E u \in MeasurementUnits :
               \/ StartsWithAt(toLowerCase(s), u, j + 1)
               \/ /\ j + 1 <= Len(s)
                  /\ IsSpace(s[j + 1]) \/ s[j + 1] = 45
                  /\ StartsWithAt(toLowerCase(s), u, j + 2)

\* fact.slice(fact.indexOf(" ") + 1)
AfterFirstSpace(s) ==
    LET at == {i \in 1..Len(s) : s[i] = 32}
    IN  IF at = {} THEN s ELSE SubSeq(s, SetMin(at) + 1, Len(s))

\* /\b[A-Z][a-z]{2,}\b/
hasProperNoun(s) ==
    \E i \in 1..Len(s), j \in 1..Len(s) :
        /\ j >= i + 2
        /\ IsUpper(s[i])
        /\ WordStartsAt(s, i)
        /\ \A m \in (i + 1)..j : IsLower(s[m])
        /\ WordEndsAt(s, j)

MIN_FACT_LENGTH == 10

MIN_FACT_WORDS == 12

MAX_FACT_WORDS == 25

\* variant: isValidFunFact without the lower bound on the number of words
isValidFunFactAnyShort(fact) ==
    /\ Len(fact) >= MIN_FACT_LENGTH
    /\ \A k \in 1..Len(BANNED_FUNFACT_PHRASES) :
           ~includes(toLowerCase(fact), BANNED_FUNFACT_PHRASES[k])
    /\ WordCount(fact) <= MAX_FACT_WORDS
    /\ SentenceCount(fact) <= 1
    /\ \/ hasNumber(fact)
       \/ hasYear(fact)
       \/ hasMeasurement(fact)
       \/ hasProperNoun(AfterFirstSpace(fact))

\* isValidFunFact on a string
isValidFunFact(fact) ==
    /\ Len(fact) >= MIN_FACT_LENGTH
    /\ \A k \in 1..Len(BANNED_FUNFACT_PHRASES) :
           ~includes(toLowerCase(fact), BANNED_FUNFACT_PHRASES[k])
    /\ WordCount(fact) >= MIN_FACT_WORDS
    /\ WordCount(fact) <= MAX_FACT_WORDS
    /\ SentenceCount(fact) <= 1
    /\ \/ hasNumber(fact)
       \/ hasYear(fact)
       \/ hasMeasurement(fact)
       \/ hasProperNoun(AfterFirstSpace(fact))

-----------------------------------------------------------------------------
(* POST /api/quiz/generate *)

ReqIds == {1, 2}

DEFAULT_COUNT == 8

POOL_MIN == 4               \* the 4 of Math.min(count, 4) and of length >= 4

EXHAUSTED_OVER == 30        \* excludeSet.size > 30

DOUBLE_OVER == 10           \* excludeSet.size > 10

REQUEST_COUNT_CAP == 16     \* Math.min(count * 2, 16)

Body(city, difficulty, count, excludeQuestionIds, cityPlaceId, cityLabel) ==
    [city |-> city, difficulty |-> difficulty, count |-> count,
     excludeQuestionIds |-> excludeQuestionIds, cityPlaceId |-> cityPlaceId,
     cityLabel |-> cityLabel]

NoBody == Body(Undef, Undef, Undef, Undef, Undef, Undef)

Response(status, questions, questionIds, cityLabel, cityPlaceId, poolExhausted, source) ==
    [status |-> status, questions |-> questions, questionIds |-> questionIds,
     cityLabel |-> cityLabel, cityPlaceId |-> cityPlaceId,
     poolExhausted |-> poolExhausted, source |-> source]

NoResponse == Response(0, <<>>, <<>>, <<>>, <<>>, FALSE, "none")

IdleReq ==
    [pc |-> "idle", body |-> NoBody, cityLabel |-> <<>>, cityPlaceId |-> <<>>,
     poiNames |-> <<>>, called |-> {}, hit |-> FALSE, allQuestions |-> <<>>,
     questions |-> <<>>, freshQuestions |-> <<>>, atGuard |-> <<>>, modelCalls |-> <<>>,
     returned |-> <<>>, response |-> NoResponse]

\* destructuring defaults of req.body (whole numbers for count)
BodyDifficulty(body) ==
    IF body.difficulty.t = "undef" THEN S_standard ELSE JsToString(body.difficulty)

BodyCount(body) ==
    IF body.count.t = "undef" THEN DEFAULT_COUNT ELSE body.count.n \div 2

\* new Set(Array.isArray(excludeQuestionIds) ? excludeQuestionIds : [])
ExcludeSet(body) ==
    IF body.excludeQuestionIds.t = "arr"
    THEN {body.excludeQuestionIds.a[i].s : i \in 1..Len(body.excludeQuestionIds.a)}
    ELSE {}

\* excludeSet.size > 10 ? Math.min(count * 2, 16) : count
RequestCount(excludeSet, count) ==
    IF Cardinality(excludeSet) > DOUBLE_OVER
    THEN MinOf(count * 2, REQUEST_COUNT_CAP) ELSE count

triviaCacheKey(cityPlaceId, city, difficulty) ==
    (IF cityPlaceId # <<>> THEN cityPlaceId ELSE toLowerCase(city)) \o Bar \o difficulty

\* cachedTrivia && Date.now() - cachedTrivia.ts < TRIVIA_POOL_TTL
\*              && cachedTrivia.questions.length > 0
TriviaCacheHit(key) ==
    /\ Fresh(triviaPoolCache, key, TRIVIA_POOL_TTL)
    /\ Len(triviaPoolCache[key].questions) > 0

\* variant of the exclusion filter that drops nothing
ExcludeNothing(questions, cityPlaceId, difficulty, excludeSet) == questions

\* if (cityPlaceId) questions = questions.filter(q => !excludeSet.has(qId))
ExcludeFilter(questions, cityPlaceId, difficulty, excludeSet) ==
    LET Keep(q) ==
            generateQuestionId(cityPlaceId, difficulty, JsToString(q.question))
                \notin excludeSet
    IN  IF cityPlaceId # <<>> THEN SelectSeq(questions, Keep) ELSE questions

\* variant of the regeneration test that does not look at the pool's origin
RegenerateWhateverSource(questions, count, triviaSource, cityPlaceId) ==
    /\ Len(questions) < MinOf(count, POOL_MIN)
    /\ cityPlaceId # <<>>

\* questions.length < Math.min(count, 4) && triviaSource === "cache" && cityPlaceId
NeedsRegeneration(questions, count, triviaSource, cityPlaceId) ==
    /\ Len(questions) < MinOf(count, POOL_MIN)
    /\ triviaSource = "cache"
    /\ cityPlaceId # <<>>

\* variant of the cache-write test that accepts any non-empty batch
CacheWorthyFromOne(questions) == Len(questions) >= 1

\* variant of the cache write that adds the batch to the entry already there
CacheAppendsBatch(key, questions) ==
    IF Len(questions) >= POOL_MIN
    THEN Put(triviaPoolCache, key,
             [questions |-> (IF Has(triviaPoolCache, key)
                             THEN triviaPoolCache[key].questions ELSE <<>>) \o questions,
              ts |-> now])
    ELSE triviaPoolCache

\* if (allQuestions.length >= 4) triviaPoolCache.set(...)
CacheWorthy(questions) == Len(questions) >= POOL_MIN

CacheAfterBatch(key, questions) ==
    IF CacheWorthy(questions)
    THEN Put(triviaPoolCache, key, [questions |-> questions, ts |-> now])
    ELSE triviaPoolCache

\* variants of the substitution guard: without the threshold, and without
\* the test for a place id
FallbackOnlyWhenEmpty(questions, count, cityPlaceId, fallback) ==
    /\ Len(questions) = 0
    /\ cityPlaceId = <<>>
    /\ Len(fallback) > Len(questions)

FallbackWithPlaceId(questions, count, cityPlaceId, fallback) ==
    /\ Len(questions) < MinOf(count, POOL_MIN)
    /\ Len(fallback) > Len(questions)

\* the guard of the curated / generic substitution
FallbackApplies(questions, count, cityPlaceId, fallback) ==
    /\ Len(questions) < MinOf(count, POOL_MIN)
    /\ cityPlaceId = <<>>
    /\ Len(fallback) > Len(questions)

\* Array.prototype.slice(0, count)
SliceTo(s, count) ==
    IF count >= 0 THEN SubSeq(s, 1, MinOf(count, Len(s)))
    ELSE SubSeq(s, 1, IF Len(s) + count > 0 THEN Len(s) + count ELSE 0)

\* variant of the id list that is also computed without a place id
QuestionIdsAlways(final, cityPlaceId, difficulty) ==
    [k \in 1..Len(final) |->
        generateQuestionId(cityPlaceId, difficulty, JsToString(final[k].question))]

QuestionIds(final, cityPlaceId, difficulty) ==
    IF cityPlaceId # <<>>
    THEN [k \in 1..Len(final) |->
             generateQuestionId(cityPlaceId, difficulty, JsToString(final[k].question))]
    ELSE <<>>

\* variant of the exhaustion flag that ignores the exclusion set
ExhaustedWhenFew(excludeSet, final, count) == Len(final) < MinOf(count, POOL_MIN)

poolExhausted(excludeSet, final, count) ==
    Cardinality(excludeSet) > EXHAUSTED_OVER /\ Len(final) < MinOf(count, POOL_MIN)

\* lines 460-494: fallback, distribution guard, slice, ids, response
\* the local `questions` when the distribution guard reads it (line 470)
QuestionsAtGuard(rq, questions0, st, off) ==
    LET fallback == getFallbackQuestions(rq.body.city.s)
    IN  IF FallbackApplies(questions0, BodyCount(rq.body), rq.cityPlaceId, fallback)
        THEN ShuffleAll(fallback, st, off) ELSE questions0

FinishResponse(rq, questions0, source0, st, off) ==
    LET city == rq.body.city.s
        count == BodyCount(rq.body)
        fallback == getFallbackQuestions(city)
        useFb == FallbackApplies(questions0, count, rq.cityPlaceId, fallback)
        questions1 == QuestionsAtGuard(rq, questions0, st, off)
        questions2 == IF checkAnswerDistribution(questions1) THEN questions1
                      ELSE ShuffleAll(questions1, st,
                                      off + (IF useFb THEN Len(fallback) ELSE 0))
        final == SliceTo(questions2, count)
    IN  Response(200, final, QuestionIds(final, rq.cityPlaceId, BodyDifficulty(rq.body)),
                 rq.cityLabel, rq.cityPlaceId,
                 poolExhausted(ExcludeSet(rq.body), final, count),
                 IF useFb THEN "fallback" ELSE source0)

\* variant of the catch block that always substitutes
CatchNeverErrors(body) == FALSE

\* the catch block: 503 when the body carried a cityPlaceId, else the fallback
CatchUsesError(body) == Truthy(body.cityPlaceId)

CatchResponse(body, st) ==
    IF CatchUsesError(body)
    THEN Response(503, <<>>, <<>>, <<>>, <<>>, FALSE, "error")
    ELSE Response(200,
                  ShuffleAll(getFallbackQuestions(
                      IF Truthy(body.city) THEN JsToString(body.city) ELSE S_theCity),
                      st, 0),
                  <<>>, <<>>, <<>>, FALSE, "fallback")

\* what one model call returned, for the request's record
Returned(kind, valid) == [kind |-> kind, valid |-> valid]

MAX_STREAMS == 2

Streams == 1..MAX_STREAMS

\* lines 317-345: body, city check, resolution and POI context
QuizStart(r, body, resolveOut, contextOut) ==
    /\ req[r].pc = "idle"
    /\ IF ~(Truthy(body.city) /\ body.city.t = "str")
       THEN /\ req' = [req EXCEPT ![r] = [IdleReq EXCEPT
                          !.pc = "done", !.body = body,
                          !.response = Response(400, <<>>, <<>>, <<>>, <<>>, FALSE, "none")]]
            /\ UNCHANGED <<cityResolveCache, cityContextCache>>
       ELSE LET city == body.city.s
                label0 == IF Truthy(body.cityLabel) THEN JsToString(body.cityLabel) ELSE city
                placeId0 == IF Truthy(body.cityPlaceId) THEN JsToString(body.cityPlaceId)
                            ELSE <<>>
                res == resolveCity(city, resolveOut)
                useRes == placeId0 = <<>> /\ res.found
                label == IF useRes THEN res.data.cityLabel ELSE label0
                placeId == IF useRes THEN res.data.placeId ELSE placeId0
                wantCtx == placeId0 # <<>> \/ useRes
                ctx == getCityContext(placeId, label, contextOut)
            IN  /\ cityResolveCache' = IF placeId0 = <<>> THEN res.cache
                                       ELSE cityResolveCache
                /\ cityContextCache' = IF wantCtx THEN ctx.cache ELSE cityContextCache
                /\ req' = [req EXCEPT ![r] = [IdleReq EXCEPT
                      !.pc = "lookup", !.body = body, !.cityLabel = label,
                      !.cityPlaceId = placeId,
                      !.poiNames = IF wantCtx
                                   THEN [k \in 1..Len(ctx.data.pois) |-> ctx.data.pois[k].name]
                                   ELSE <<>>,
                      !.called = (IF placeId0 = <<>> /\ res.called THEN {"resolve"} ELSE {})
                                 \cup (IF wantCtx /\ ctx.called THEN {"context"} ELSE {})]]
    /\ UNCHANGED <<now, hasPlacesKey, triviaPoolCache, poolCache, enrichmentCache, aux,
                   geocodeInternalCache, trip, page>>

\* lines 347-408 and, on a cache hit, 426-437 or 426-494
QuizLookup(r, st) ==
    /\ req[r].pc = "lookup"
    /\ LET rq == req[r]
           count == BodyCount(rq.body)
           difficulty == BodyDifficulty(rq.body)
           excludeSet == ExcludeSet(rq.body)
           key == triviaCacheKey(rq.cityPlaceId, rq.body.city.s, difficulty)
           call(phase) == [phase |-> phase,
                           requestCount |-> RequestCount(excludeSet, count)]
       IN  IF TriviaCacheHit(key)
           THEN LET allQuestions == triviaPoolCache[key].questions
                    questions == ExcludeFilter(allQuestions, rq.cityPlaceId, difficulty,
                                               excludeSet)
                IN  IF NeedsRegeneration(questions, count, "cache", rq.cityPlaceId)
                    THEN /\ triviaPoolCache' = Delete(triviaPoolCache, key)
                         /\ req' = [req EXCEPT ![r] = [rq EXCEPT
                               !.pc = "awaitRegen", !.hit = TRUE,
                               !.allQuestions = allQuestions, !.questions = questions,
                               !.modelCalls = Append(@, call("regenerate"))]]
                    ELSE /\ UNCHANGED triviaPoolCache
                         /\ req' = [req EXCEPT ![r] = [rq EXCEPT
                               !.pc = "done", !.hit = TRUE,
                               !.allQuestions = allQuestions, !.questions = questions,
                               !.atGuard = QuestionsAtGuard(rq, questions, st, 0),
                               !.response = FinishResponse(rq, questions, "cache", st, 0)]]
           ELSE /\ triviaPoolCache' =
                       IF Has(triviaPoolCache, key)
                          /\ Len(triviaPoolCache[key].questions) = 0
                       THEN Delete(triviaPoolCache, key) ELSE triviaPoolCache
                /\ req' = [req EXCEPT ![r] = [rq EXCEPT
                      !.pc = "awaitModel",
                      !.modelCalls = Append(@, call("generate"))]]
    /\ UNCHANGED <<now, hasPlacesKey, cityResolveCache, cityContextCache, poolCache,
                   enrichmentCache, aux, seen, client, geocodeInternalCache, trip, page>>

\* the model call threw, or validateTriviaQuestions was handed a non-array
ModelThrows(out) ==
    out.kind = "throw" \/ CandidateList(safeJsonParse(out.content)).t # "arr"

\* "threw": the model call rejected; "typeError": .filter on a non-array
ThrowKind(out) == IF out.kind = "throw" THEN "threw" ELSE "typeError"

ModelCandidates(out) == CandidateList(safeJsonParse(out.content)).items

\* lines 409-433 and 460-494, or the catch block
QuizModelReturn(r, out, st) ==
    /\ req[r].pc = "awaitModel"
    /\ LET rq == req[r]
           difficulty == BodyDifficulty(rq.body)
           key == triviaCacheKey(rq.cityPlaceId, rq.body.city.s, difficulty)
       IN  IF ModelThrows(out)
           THEN /\ UNCHANGED triviaPoolCache
                /\ req' = [req EXCEPT ![r] = [rq EXCEPT
                      !.pc = "done",
                      !.returned = Append(@, Returned(ThrowKind(out), 0)),
                      !.response = CatchResponse(rq.body, st)]]
           ELSE LET allQuestions == validateTriviaQuestions(ModelCandidates(out), st)
                    questions == ExcludeFilter(allQuestions, rq.cityPlaceId, difficulty,
                                               ExcludeSet(rq.body))
                    returned == Append(rq.returned, Returned("ok", Len(allQuestions)))
                IN  IF NeedsRegeneration(questions, BodyCount(rq.body), "openai",
                                         rq.cityPlaceId)
                    THEN /\ triviaPoolCache' =
                                Delete(CacheAfterBatch(key, allQuestions), key)
                         /\ req' = [req EXCEPT ![r] = [rq EXCEPT
                               !.pc = "awaitRegen", !.allQuestions = allQuestions,
                               !.questions = questions, !.returned = returned,
                               !.modelCalls = Append(@,
                                   [phase |-> "regenerate",
                                    requestCount |-> RequestCount(ExcludeSet(rq.body),
                                                                  BodyCount(rq.body))])]]
                    ELSE /\ triviaPoolCache' = CacheAfterBatch(key, allQuestions)
                         /\ req' = [req EXCEPT ![r] = [rq EXCEPT
                               !.pc = "done", !.allQuestions = allQuestions,
                               !.questions = questions, !.returned = returned,
                               !.atGuard = QuestionsAtGuard(rq, questions, st,
                                                            Len(allQuestions)),
                               !.response = FinishResponse(rq, questions, "openai", st,
                                                           Len(allQuestions))]]
    /\ UNCHANGED <<now, hasPlacesKey, cityResolveCache, cityContextCache, poolCache,
                   enrichmentCache, aux, seen, client, geocodeInternalCache, trip, page>>

\* if (questions.length === 0) questions = freshQuestions
RegeneratedQuestions(freshQuestions, cityPlaceId, difficulty, excludeSet) ==
    LET filtered == ExcludeFilter(freshQuestions, cityPlaceId, difficulty, excludeSet)
    IN  IF Len(filtered) = 0 THEN freshQuestions ELSE filtered

\* lines 438-458 and 460-494, or the catch block
QuizRegenReturn(r, out, st) ==
    /\ req[r].pc = "awaitRegen"
    /\ LET rq == req[r]
           difficulty == BodyDifficulty(rq.body)
           key == triviaCacheKey(rq.cityPlaceId, rq.body.city.s, difficulty)
       IN  IF ModelThrows(out)
           THEN /\ UNCHANGED triviaPoolCache
                /\ req' = [req EXCEPT ![r] = [rq EXCEPT
                      !.pc = "done",
                      !.returned = Append(@, Returned(ThrowKind(out), 0)),
                      !.response = CatchResponse(rq.body, st)]]
           ELSE LET freshQuestions == validateTriviaQuestions(ModelCandidates(out), st)
                    questions == RegeneratedQuestions(freshQuestions, rq.cityPlaceId,
                                                      difficulty, ExcludeSet(rq.body))
                IN  /\ triviaPoolCache' = CacheAfterBatch(key, freshQuestions)
                    /\ req' = [req EXCEPT ![r] = [rq EXCEPT
                          !.pc = "done", !.questions = questions,
                          !.freshQuestions = freshQuestions,
                          !.returned = Append(@, Returned("ok", Len(freshQuestions))),
                          !.atGuard = QuestionsAtGuard(rq, questions, st,
                                                       Len(freshQuestions)),
                          !.response = FinishResponse(rq, questions, "openai", st,
                                                      Len(freshQuestions))]]
    /\ UNCHANGED <<now, hasPlacesKey, cityResolveCache, cityContextCache, poolCache,
                   enrichmentCache, aux, seen, client, geocodeInternalCache, trip, page>>

\* the response has been sent and the handler's locals are gone
QuizClose(r) ==
    /\ req[r].pc = "done"
    /\ client.pc # "waiting"
    /\ req' = [req EXCEPT ![r] = IdleReq]
    /\ UNCHANGED <<now, hasPlacesKey, cityResolveCache, cityContextCache,
                   triviaPoolCache, poolCache, enrichmentCache, aux, seen, client,
                   geocodeInternalCache, trip, page>>

-----------------------------------------------------------------------------
(* fetchGooglePlacesPool and POST /api/suggestions/enrich-poi.  A query's  *)
(* upstream result is the list fetchGooglePlacesTextSearch would return    *)
(* for it with the key set (the empty list when the fetch fails).          *)

\* a GooglePlaceResult (category "Landmark", no address)
RatedPlace(placeId, title, lat, rating, userRatingCount) ==
    [title |-> title, lat |-> lat, lng |-> 0,
     category |-> <<76, 97, 110, 100, 109, 97, 114, 107>>, address |-> <<>>,
     placeId |-> placeId, rating |-> rating, userRatingCount |-> userRatingCount]

Place(placeId, title) == RatedPlace(placeId, title, 0, 0, 0)

\* const apiKey = process.env.GOOGLE_PLACES_API_KEY; if (!apiKey) return [];
fetchGooglePlacesTextSearch(result) == IF hasPlacesKey THEN result ELSE <<>>

\* results.flat()
RECURSIVE Flat(_)
Flat(results) == IF results = <<>> THEN <<>> ELSE Head(results) \o Flat(Tail(results))

\* the Map keyed by placeId: first occurrence kept, insertion order
RECURSIVE DedupePlaces(_, _)
DedupePlaces(all, kept) ==
    IF all = <<>> THEN kept
    ELSE DedupePlaces(Tail(all),
                      IF \E k \in 1..Len(kept) : kept[k].placeId = Head(all).placeId
                      THEN kept ELSE Append(kept, Head(all)))

\* the places returned, the cache afterwards, whether the entry was used and
\* whether the provider was called
fetchGooglePlacesPool(city, out) ==
    LET cacheKey == trim(toLowerCase(city))
    IN  IF Fresh(poolCache, cacheKey, POOL_CACHE_TTL)
        THEN [places |-> poolCache[cacheKey].places, cache |-> poolCache,
              hit |-> TRUE, called |-> FALSE]
        ELSE LET results == [k \in 1..Len(out) |-> fetchGooglePlacesTextSearch(out[k])]
                 places == DedupePlaces(Flat(results), <<>>)
             IN  [places |-> places,
                  cache |-> Put(poolCache, cacheKey, [places |-> places, ts |-> now]),
                  hit |-> FALSE, called |-> hasPlacesKey]

NoCall == [op |-> "none", key |-> <<>>, hit |-> FALSE, called |-> FALSE, value |-> <<>>]

IdleAux(endpoint) == [exercised |-> endpoint, last |-> NoCall]

\* one call of fetchGooglePlacesPool from the suggestions handler
FetchGooglePlacesPool(city, out) ==
    /\ LET got == fetchGooglePlacesPool(city, out)
       IN  /\ poolCache' = got.cache
           /\ aux' = [aux EXCEPT !.last =
                  [op |-> "pool", key |-> trim(toLowerCase(city)), hit |-> got.hit,
                   called |-> got.called, value |-> got.places]]
    /\ UNCHANGED <<now, hasPlacesKey, cityResolveCache, cityContextCache,
                   triviaPoolCache, enrichmentCache, req, seen, client,
                   geocodeInternalCache, trip, page>>

EnrichBody(city, name, category, placeId) ==
    [city |-> city, name |-> name, category |-> category, placeId |-> placeId]

EnrichResponse(status, name, placeId, description, funFact) ==
    [status |-> status, name |-> name, placeId |-> placeId,
     description |-> description, funFact |-> funFact]

S_landmark == <<108, 97, 110, 100, 109, 97, 114, 107>>    \* "landmark"

\* `A ${(category || "landmark").toLowerCase()} in ${city}.`
DefaultDescription(category, city) ==
    Str(<<65, 32>>
        \o toLowerCase(IF Truthy(category) THEN JsToString(category) ELSE S_landmark)
        \o <<32, 105, 110, 32>> \o city \o <<46>>)

\* variant of the catch block that answers with an error status
EnrichCatchFails(body) == EnrichResponse(500, Undef, Undef, Undef, Undef)

\* the catch block of the enrichment handler
EnrichCatch(body) ==
    EnrichResponse(200,
        IF Truthy(body.name) THEN body.name ELSE Str(<<>>),
        IF Truthy(body.placeId) THEN body.placeId ELSE Str(<<>>),
        DefaultDescription(body.category,
                           IF Truthy(body.city) THEN JsToString(body.city) ELSE S_theCity),
        Str(<<>>))

\* parsed?.description and parsed?.funFact
ParsedField(parsed, k) ==
    IF parsed.t = "obj" /\ Len(parsed.items) >= k THEN parsed.items[k] ELSE Undef

\* POST /api/suggestions/enrich-poi
EnrichPoi(body, out) ==
    /\ LET key == JsToString(body.placeId)
           record(hit, called, response) ==
               [aux EXCEPT !.last = [op |-> "enrich", key |-> key, hit |-> hit,
                                     called |-> called, value |-> response]]
           parsed == safeJsonParse(out.content)
           given == ParsedField(parsed, 1)
           fact == ParsedField(parsed, 2)
           description == IF Truthy(given) THEN given
                          ELSE DefaultDescription(body.category, JsToString(body.city))
           funFact == IF Truthy(fact) /\ isValidFunFact(fact.s) THEN fact ELSE Str(<<>>)
       IN  IF ~Truthy(body.name) \/ ~Truthy(body.city)
           THEN /\ aux' = record(FALSE, FALSE,
                                 EnrichResponse(400, Undef, Undef, Undef, Undef))
                /\ UNCHANGED enrichmentCache
           ELSE IF Truthy(body.placeId) /\ Fresh(enrichmentCache, key, ENRICHMENT_CACHE_TTL)
           THEN /\ aux' = record(TRUE, FALSE,
                                 EnrichResponse(200, body.name, body.placeId,
                                                enrichmentCache[key].data.description,
                                                enrichmentCache[key].data.funFact))
                /\ UNCHANGED enrichmentCache
           ELSE IF out.kind = "throw" \/ (Truthy(fact) /\ fact.t # "str")
           THEN \* the model call rejected, or fact.toLowerCase is not a function
                /\ aux' = record(FALSE, TRUE, EnrichCatch(body))
                /\ UNCHANGED enrichmentCache
           ELSE /\ aux' = record(FALSE, TRUE,
                                 EnrichResponse(200, body.name, body.placeId,
                                                description, funFact))
                /\ enrichmentCache' =
                       IF Truthy(body.placeId)
                       THEN Put(enrichmentCache, key,
                                [data |-> [description |-> description,
                                           funFact |-> funFact],
                                 ts |-> now])
                       ELSE enrichmentCache
    /\ UNCHANGED <<now, hasPlacesKey, cityResolveCache, cityContextCache,
                   triviaPoolCache, poolCache, req, seen, client, geocodeInternalCache, trip, page>>

-----------------------------------------------------------------------------
(* POST /api/suggestions/generate: hotel geocoding, the places pool, the   *)
(* ranking, the exclusion, the page of five and the curated fallback.      *)
(* Coordinates are in thousandths of a degree, distances in metres,        *)
(* ratings in tenths of a star; popularity scores are in the same tenths.  *)

S_Culture == <<67, 117, 108, 116, 117, 114, 101>>    \* "Culture"

S_Entertainment == <<69, 110, 116, 101, 114, 116, 97, 105, 110, 109, 101, 110, 116>>    \* "Entertainment"

S_Food == <<70, 111, 111, 100>>    \* "Food"

S_Landmark == <<76, 97, 110, 100, 109, 97, 114, 107>>    \* "Landmark"

S_Nature == <<78, 97, 116, 117, 114, 101>>    \* "Nature"

\* a curated suggestion: its description, fun fact, address and coordinates
\* are abbreviated; it has no placeId
S_curated == <<99, 117, 114, 97, 116, 101, 100>>    \* stands for the curated text

Curated(title, category) ==
    [title |-> title, description |-> Str(S_curated), category |-> category,
     funFact |-> Str(S_curated), address |-> S_curated, placeId |-> Undef,
     lat |-> 0, lng |-> 0, enriched |-> Undef]

PlaceCities == <<S_newYork, S_chicago, S_paris, S_rome, S_tokyo>>

CURATED_PLACES(name) ==
    CASE name = S_newYork ->
          <<Curated(<<67, 101, 110, 116, 114, 97, 108, 32, 80, 97, 114, 107>>,
                    S_Nature),
            Curated(<<84, 104, 101, 32, 77, 101, 116, 114, 111, 112, 111, 108, 105,
                      116, 97, 110, 32, 77, 117, 115, 101, 117, 109, 32, 111, 102, 32,
                      65, 114, 116>>,
                    S_Culture),
            Curated(<<83, 116, 97, 116, 117, 101, 32, 111, 102, 32, 76, 105, 98, 101,
                      114, 116, 121>>,
                    S_Landmark),
            Curated(<<84, 105, 109, 101, 115, 32, 83, 113, 117, 97, 114, 101>>,
                    S_Entertainment),
            Curated(<<66, 114, 111, 111, 107, 108, 121, 110, 32, 66, 114, 105, 100,
                      103, 101>>,
                    S_Landmark),
            Curated(<<74, 111, 101, 39, 115, 32, 80, 105, 122, 122, 97>>,
                    S_Food)>>
      [] name = S_chicago ->
          <<Curated(<<77, 105, 108, 108, 101, 110, 110, 105, 117, 109, 32, 80, 97, 114,
                      107>>,
                    S_Landmark),
            Curated(<<65, 114, 116, 32, 73, 110, 115, 116, 105, 116, 117, 116, 101, 32,
                      111, 102, 32, 67, 104, 105, 99, 97, 103, 111>>,
                    S_Culture),
            Curated(<<87, 105, 108, 108, 105, 115, 32, 84, 111, 119, 101, 114, 32, 83,
                      107, 121, 100, 101, 99, 107>>,
                    S_Landmark),
            Curated(<<78, 97, 118, 121, 32, 80, 105, 101, 114>>,
                    S_Entertainment),
            Curated(<<67, 104, 105, 99, 97, 103, 111, 32, 82, 105, 118, 101, 114, 119,
                      97, 108, 107>>,
                    S_Nature),
            Curated(<<76, 111, 117, 32, 77, 97, 108, 110, 97, 116, 105, 39, 115, 32,
                      80, 105, 122, 122, 101, 114, 105, 97>>,
                    S_Food)>>
      [] name = S_paris ->
          <<Curated(<<69, 105, 102, 102, 101, 108, 32, 84, 111, 119, 101, 114>>,
                    S_Landmark),
            Curated(<<76, 111, 117, 118, 114, 101, 32, 77, 117, 115, 101, 117, 109>>,
                    S_Culture),
            Curated(<<78, 111, 116, 114, 101, 45, 68, 97, 109, 101, 32, 67, 97, 116,
                      104, 101, 100, 114, 97, 108>>,
                    S_Landmark),
            Curated(<<83, 97, 99, 114, 101, 45, 67, 111, 101, 117, 114, 32, 66, 97,
                      115, 105, 108, 105, 99, 97>>,
                    S_Landmark),
            Curated(<<74, 97, 114, 100, 105, 110, 32, 100, 117, 32, 76, 117, 120, 101,
                      109, 98, 111, 117, 114, 103>>,
                    S_Nature),
            Curated(<<76, 101, 32, 67, 111, 109, 112, 116, 111, 105, 114, 32, 100, 117,
                      32, 80, 97, 110, 116, 104, 101, 111, 110>>,
                    S_Food)>>
      [] name = S_rome ->
          <<Curated(<<67, 111, 108, 111, 115, 115, 101, 117, 109>>,
                    S_Landmark),
            Curated(<<86, 97, 116, 105, 99, 97, 110, 32, 77, 117, 115, 101, 117, 109,
                      115>>,
                    S_Culture),
            Curated(<<84, 114, 101, 118, 105, 32, 70, 111, 117, 110, 116, 97, 105, 110>>,
                    S_Landmark),
            Curated(<<80, 97, 110, 116, 104, 101, 111, 110>>,
                    S_Landmark),
            Curated(<<84, 114, 97, 115, 116, 101, 118, 101, 114, 101>>,
                    S_Food),
            Curated(<<86, 105, 108, 108, 97, 32, 66, 111, 114, 103, 104, 101, 115, 101,
                      32, 71, 97, 114, 100, 101, 110, 115>>,
                    S_Nature)>>
      [] name = S_tokyo ->
          <<Curated(<<83, 101, 110, 115, 111, 45, 106, 105, 32, 84, 101, 109, 112, 108,
                      101>>,
                    S_Culture),
            Curated(<<77, 101, 105, 106, 105, 32, 83, 104, 114, 105, 110, 101>>,
                    S_Culture),
            Curated(<<83, 104, 105, 98, 117, 121, 97, 32, 67, 114, 111, 115, 115, 105,
                      110, 103>>,
                    S_Landmark),
            Curated(<<84, 115, 117, 107, 105, 106, 105, 32, 79, 117, 116, 101, 114, 32,
                      77, 97, 114, 107, 101, 116>>,
                    S_Food),
            Curated(<<83, 104, 105, 110, 106, 117, 107, 117, 32, 71, 121, 111, 101,
                      110>>,
                    S_Nature),
            Curated(<<84, 111, 107, 121, 111, 32, 84, 111, 119, 101, 114>>,
                    S_Landmark)>>

\* key.includes(name) || name.includes(key), in the order of the object's keys
getCuratedFallback(city) ==
    LET key == trim(toLowerCase(city))
        hits == {k \in 1..Len(PlaceCities) :
                    includes(key, PlaceCities[k]) \/ includes(PlaceCities[k], key)}
    IN  IF hits = {} THEN <<>> ELSE CURATED_PLACES(PlaceCities[SetMin(hits)])

SuggestBody(city, hotelLocation, exclude, excludePlaceIds) ==
    [city |-> city, hotelLocation |-> hotelLocation, exclude |-> exclude,
     excludePlaceIds |-> excludePlaceIds]

\* the destructuring defaults exclude = [] and excludePlaceIds = []
OrEmptyArray(j) == IF j.t = "undef" THEN Arr(<<>>) ELSE j

\* excludeTitles.map((t) => t.toLowerCase().trim()) or
\* excludePlaceIds.filter(Boolean) raises a TypeError
ExclusionThrows(excludeTitles, excludePlaceIds) ==
    \/ excludeTitles.t # "arr"
    \/ \E k \in 1..Len(excludeTitles.a) : excludeTitles.a[k].t # "str"
    \/ excludePlaceIds.t # "arr"

\* variant: the excluded titles are compared as they were sent
TitleSetAsSent(excludeTitles) == {excludeTitles.a[k].s : k \in 1..Len(excludeTitles.a)}

\* new Set(excludeTitles.map((t) => t.toLowerCase().trim()))
TitleSet(excludeTitles) == {trim(toLowerCase(excludeTitles.a[k].s)) : k \in 1..Len(excludeTitles.a)}

\* new Set(excludePlaceIds.filter(Boolean))
PlaceIdSet(excludePlaceIds) ==
    {excludePlaceIds.a[k] : k \in {i \in 1..Len(excludePlaceIds.a) : Truthy(excludePlaceIds.a[i])}}

\* the filter callback of validateSuggestions, seen being the keys kept so far
RECURSIVE ValidateFrom(_, _, _, _, _)
ValidateFrom(suggestions, k, titleSet, placeIdSet, seenKeys) ==
    IF k > Len(suggestions) THEN <<>>
    ELSE LET s == suggestions[k]
             key == trim(toLowerCase(s.title))
             keep == /\ s.title # <<>> /\ Truthy(s.description) /\ s.category # <<>>
                     /\ key \notin titleSet /\ key \notin seenKeys
                     /\ ~(Truthy(s.placeId) /\ s.placeId \in placeIdSet)
         IN  IF keep
             THEN <<s>> \o ValidateFrom(suggestions, k + 1, titleSet, placeIdSet,
                                        seenKeys \cup {key})
             ELSE ValidateFrom(suggestions, k + 1, titleSet, placeIdSet, seenKeys)

validateSuggestions(suggestions, excludeTitles, excludePlaceIds) ==
    ValidateFrom(suggestions, 1, TitleSet(excludeTitles), PlaceIdSet(excludePlaceIds), {})

\* a geocoding outcome: coordinates, or null
Coords(lat, lng) == [found |-> TRUE, lat |-> lat, lng |-> lng]

NoCoords == [found |-> FALSE, lat |-> 0, lng |-> 0]

\* geocodeCached on the cache given; out is what the upstream call yields
\* (null for no result, a timeout or a network error)
geocodeCached(cache, address, out) ==
    LET key == trim(toLowerCase(address))
    IN  IF Has(cache, key)
        THEN [coords |-> cache[key], cache |-> cache, called |-> FALSE]
        ELSE [coords |-> out, cache |-> Put(cache, key, out), called |-> TRUE]

\* lines 529-535: `${hotelLocation}, ${city}` first, then hotelLocation alone
GeocodeHotel(hotelLocation, city, outs) ==
    IF ~(Truthy(hotelLocation) /\ hotelLocation.t = "str")
    THEN [coords |-> NoCoords, cache |-> geocodeInternalCache, calls |-> 0]
    ELSE LET first == geocodeCached(geocodeInternalCache,
                                    hotelLocation.s \o <<44, 32>> \o city, outs[1])
             second == geocodeCached(first.cache, hotelLocation.s, outs[2])
         IN  IF first.coords.found
             THEN [coords |-> first.coords, cache |-> first.cache,
                   calls |-> IF first.called THEN 1 ELSE 0]
             ELSE [coords |-> second.coords, cache |-> second.cache,
                   calls |-> (IF first.called THEN 1 ELSE 0)
                             + (IF second.called THEN 1 ELSE 0)]

METRES_PER_DEGREE == 111195        \* 6371 km * pi / 180

\* haversineKm between two points of one meridian, in metres
haversineKm(lat1, lng1, lat2, lng2) ==
    ((IF lat2 >= lat1 THEN lat2 - lat1 ELSE lat1 - lat2) * METRES_PER_DEGREE) \div 1000

MAX_DISTANCE == 100000             \* p.distanceKm <= 100

\* Math.log10 on the powers of ten
RECURSIVE log10(_)
log10(n) == IF n < 10 THEN 0 ELSE 1 + log10(n \div 10)

NoDistance == [known |-> FALSE, m |-> 0]

Distance(m) == [known |-> TRUE, m |-> m]

\* { ...p, distanceKm: distKm, popularityScore: popScore }
Scored(p, hotelCoords) ==
    [placeId |-> p.placeId, title |-> p.title, lat |-> p.lat, lng |-> p.lng,
     category |-> p.category, address |-> p.address, rating |-> p.rating,
     userRatingCount |-> p.userRatingCount,
     distanceKm |-> IF hotelCoords.found
                    THEN Distance(haversineKm(hotelCoords.lat, hotelCoords.lng, p.lat, p.lng))
                    ELSE NoDistance,
     popularityScore |-> p.rating * log10(p.userRatingCount + 1)]

WithinReach(p) == ~p.distanceKm.known \/ p.distanceKm.m <= MAX_DISTANCE

\* values.sort((a, b) => a - b)
RECURSIVE SortNumbers(_)
SortNumbers(values) ==
    IF values = <<>> THEN <<>>
    ELSE LET rest == SortNumbers(Tail(values))
             below == {k \in 1..Len(rest) : rest[k] < Head(values)}
             at == IF below = {} THEN 0 ELSE SetMax(below)
         IN  SubSeq(rest, 1, at) \o <<Head(values)>> \o SubSeq(rest, at + 1, Len(rest))

\* popValues.findIndex((v) => v >= score)
findIndex(popValues, score) ==
    LET at == {k \in 1..Len(popValues) : popValues[k] >= score}
    IN  IF at = {} THEN -1 ELSE SetMin(at) - 1

getBucket(popValues, score) ==
    LET idx == findIndex(popValues, score)
    IN  ((IF idx = -1 THEN Len(popValues) ELSE idx) * 10) \div Len(popValues)

\* variant of the comparator with the nearer place last
FarthestFirst(a, b, popValues) ==
    LET bucketA == getBucket(popValues, a.popularityScore)
        bucketB == getBucket(popValues, b.popularityScore)
    IN  IF bucketB # bucketA THEN bucketB - bucketA
        ELSE IF a.distanceKm.known /\ b.distanceKm.known
        THEN b.distanceKm.m - a.distanceKm.m
        ELSE 0

\* the comparator of ranked.sort
Compare(a, b, popValues) ==
    LET bucketA == getBucket(popValues, a.popularityScore)
        bucketB == getBucket(popValues, b.popularityScore)
    IN  IF bucketB # bucketA THEN bucketB - bucketA
        ELSE IF a.distanceKm.known /\ b.distanceKm.known
        THEN a.distanceKm.m - b.distanceKm.m
        ELSE 0

\* Array.prototype.sort is stable: an element goes behind every element that
\* the comparator does not put after it
RECURSIVE SortRanked(_, _)
SortRanked(ranked, popValues) ==
    IF ranked = <<>> THEN <<>>
    ELSE LET last == ranked[Len(ranked)]
             front == SortRanked(SubSeq(ranked, 1, Len(ranked) - 1), popValues)
             notAfter == {k \in 1..Len(front) : Compare(front[k], last, popValues) <= 0}
             at == IF notAfter = {} THEN 0 ELSE SetMax(notAfter)
         IN  SubSeq(front, 1, at) \o <<last>> \o SubSeq(front, at + 1, Len(front))

\* lines 545-567
Rank(pool, hotelCoords) ==
    LET scored == [k \in 1..Len(pool) |-> Scored(pool[k], hotelCoords)]
        ranked == IF hotelCoords.found THEN SelectSeq(scored, WithinReach) ELSE scored
        popValues == SortNumbers([k \in 1..Len(ranked) |-> ranked[k].popularityScore])
    IN  SortRanked(ranked, popValues)

\* available.slice(0, 5)
PageOfFive(available) == SubSeq(available, 1, MinOf(5, Len(available)))

S_loading ==
    <<76, 111, 97, 100, 105, 110, 103, 32, 100, 101, 116, 97, 105, 108, 115, 8230>>
        \* "Loading details" and U+2026

Bool(b) == [t |-> "bool", s |-> <<>>, n |-> IF b THEN 1 ELSE 0, a |-> <<>>]

\* lines 585-599
Suggestion(p) ==
    LET hasCache == Fresh(enrichmentCache, p.placeId, ENRICHMENT_CACHE_TTL)
    IN  [title |-> p.title,
         description |-> IF hasCache THEN enrichmentCache[p.placeId].data.description
                         ELSE Str(S_loading),
         category |-> p.category,
         funFact |-> IF hasCache THEN enrichmentCache[p.placeId].data.funFact
                     ELSE Str(<<>>),
         address |-> p.address, placeId |-> Str(p.placeId), lat |-> p.lat, lng |-> p.lng,
         enriched |-> Bool(hasCache)]

SuggestResponse(status, suggestions) == [status |-> status, suggestions |-> suggestions]

\* variant of the catch block that answers with an error status
CatchAnswers500(body) == SuggestResponse(500, <<>>)

\* lines 603-607
SuggestCatch(body) ==
    SuggestResponse(200, PageOfFive(getCuratedFallback(
        IF Truthy(body.city) THEN JsToString(body.city) ELSE S_theCity)))

\* lines 538-542 and 579-583
FallbackPage(city, excludeTitles, excludePlaceIds) ==
    SuggestResponse(200,
        PageOfFive(validateSuggestions(getCuratedFallback(city), excludeTitles,
                                       excludePlaceIds)))

\* the handler: its response, the two caches afterwards, which res.json
\* answered, and the locals hotelCoords, pool and ranked
suggestionsGenerate(body, geoOuts, poolOut) ==
    IF ~(Truthy(body.city) /\ body.city.t = "str")
    THEN [response |-> SuggestResponse(400, <<>>), answeredAt |-> "badRequest",
          geocodes |-> geocodeInternalCache, pools |-> poolCache,
          hotelCoords |-> NoCoords, pool |-> <<>>, ranked |-> <<>>, geocodeCalls |-> 0]
    ELSE LET city == body.city.s
             excludeTitles == OrEmptyArray(body.exclude)
             excludePlaceIds == OrEmptyArray(body.excludePlaceIds)
             hotel == GeocodeHotel(body.hotelLocation, city, geoOuts)
             got == fetchGooglePlacesPool(city, poolOut)
             pool == got.places
             ranked == IF pool = <<>> THEN <<>> ELSE Rank(pool, hotel.coords)
             titleExcludeSet == TitleSet(excludeTitles)
             pidExcludeSet == PlaceIdSet(excludePlaceIds)
             Available(p) == /\ trim(toLowerCase(p.title)) \notin titleExcludeSet
                             /\ ~(p.placeId # <<>> /\ Str(p.placeId) \in pidExcludeSet)
             batch == PageOfFive(SelectSeq(ranked, Available))
             suggestions == [k \in 1..Len(batch) |-> Suggestion(batch[k])]
             answer(response, at) ==
                 [response |-> response, answeredAt |-> at, geocodes |-> hotel.cache,
                  pools |-> got.cache, hotelCoords |-> hotel.coords, pool |-> pool,
                  ranked |-> ranked, geocodeCalls |-> hotel.calls]
         IN  IF ExclusionThrows(excludeTitles, excludePlaceIds)
             THEN answer(SuggestCatch(body), "catch")
             ELSE IF pool = <<>>
             THEN answer(FallbackPage(city, excludeTitles, excludePlaceIds), "emptyPool")
             ELSE IF batch = <<>>
             THEN answer(FallbackPage(city, excludeTitles, excludePlaceIds), "emptyBatch")
             ELSE answer(SuggestResponse(200,
                             validateSuggestions(suggestions, excludeTitles,
                                                 excludePlaceIds)), "batch")

\* one request to POST /api/suggestions/generate
SuggestionsGenerate(body, geoOuts, poolOut) ==
    /\ LET done == suggestionsGenerate(body, geoOuts, poolOut)
       IN  /\ geocodeInternalCache' = done.geocodes
           /\ poolCache' = done.pools
           /\ aux' = [aux EXCEPT !.last =
                  [op |-> "suggest", key |-> body, hit |-> FALSE,
                   called |-> done.geocodeCalls > 0, value |-> done]]
    /\ UNCHANGED <<now, hasPlacesKey, cityResolveCache, cityContextCache,
                   triviaPoolCache, enrichmentCache, req, seen, client, trip, page>>

-----------------------------------------------------------------------------
(* The client's loading step (quiz branch) and its seen-question store *)

SEEN_LIMIT == 200          \* .slice(-200)

\* getSeenQuestionIds: the stored list, [] when nothing is stored
getSeenQuestionIds(city) == IF Has(seen, city) THEN seen[city] ELSE <<>>

\* Array.from(new Set([...existing, ...ids])): first occurrences, in order
RECURSIVE Dedupe(_, _)
Dedupe(s, kept) ==
    IF s = <<>> THEN kept
    ELSE Dedupe(Tail(s), IF Head(s) \in Range(kept) THEN kept ELSE Append(kept, Head(s)))

\* Array.prototype.slice(-n)
LastN(s, n) == IF Len(s) <= n THEN s ELSE SubSeq(s, Len(s) - n + 1, Len(s))

\* saveSeenQuestionIds, applied to a store
SaveSeen(store, city, ids) ==
    LET existing == IF Has(store, city) THEN store[city] ELSE <<>>
    IN  Put(store, city, LastN(Dedupe(existing \o ids, <<>>), SEEN_LIMIT))

\* clearSeenQuestionIds, applied to a store
ClearSeen(store, city) == Delete(store, city)

IdleClient == [pc |-> "home", city |-> <<>>, cityLabel |-> <<>>, cityPlaceId |-> <<>>,
               got |-> NoResponse, round |-> 0]

MAX_ROUNDS == 2

\* the payload of lines 87-99
QuizPayload ==
    Body(Str(client.city), Str(S_standard), Num(DEFAULT_COUNT),
         Arr([k \in 1..Len(getSeenQuestionIds(client.city)) |->
                 Str(getSeenQuestionIds(client.city)[k])]),
         IF client.cityPlaceId # <<>> THEN Str(client.cityPlaceId) ELSE Undef,
         IF client.cityLabel # <<>> THEN Str(client.cityLabel) ELSE Undef)

\* the loading screen is entered for a city: from the home screen (label and
\* place id cleared) or for a saved trip (its stored place id)
ClientStart(city, placeId) ==
    /\ client.pc \in {"home", "quiz"}
    /\ client.round < MAX_ROUNDS
    /\ req[1].pc = "idle"
    /\ client' = [IdleClient EXCEPT !.pc = "loading", !.city = city,
                                    !.cityPlaceId = placeId,
                                    !.round = client.round + 1]
    /\ UNCHANGED <<now, hasPlacesKey, cityResolveCache, cityContextCache,
                   triviaPoolCache, poolCache, enrichmentCache, req, aux, seen,
                   geocodeInternalCache, trip, page>>

\* lines 86-100: the request is sent and the server starts on it
ClientSend(resolveOut, contextOut) ==
    /\ client.pc = "loading"
    /\ QuizStart(1, QuizPayload, resolveOut, contextOut)
    /\ client' = [client EXCEPT !.pc = "waiting"]
    /\ UNCHANGED seen

\* data.error || !Array.isArray(data.questions) || data.questions.length === 0;
\* apiRequest throws on a status that is not 2xx
ClientGivesUp(data) == data.status # 200 \/ Len(data.questions) = 0

\* lines 113-123 applied to the store
SeenAfter(store, city, data) ==
    LET cleared == IF data.poolExhausted THEN ClearSeen(store, city) ELSE store
    IN  IF Len(data.questionIds) > 0 THEN SaveSeen(cleared, city, data.questionIds)
        ELSE cleared

\* lines 101-132: the response arrives
ClientReceive ==
    /\ client.pc = "waiting"
    /\ req[1].pc = "done"
    /\ LET data == req[1].response
       IN  IF ClientGivesUp(data)
           THEN /\ client' = [client EXCEPT !.pc = "home", !.got = data]
                /\ UNCHANGED seen
           ELSE /\ seen' = SeenAfter(seen, client.city, data)
                /\ client' = [client EXCEPT
                      !.pc = "quiz", !.got = data,
                      !.cityLabel = IF data.cityLabel # <<>> THEN data.cityLabel ELSE @,
                      !.cityPlaceId = IF data.cityPlaceId # <<>> THEN data.cityPlaceId
                                      ELSE @]
    /\ req' = [req EXCEPT ![1] = IdleReq]
    /\ UNCHANGED <<now, hasPlacesKey, cityResolveCache, cityContextCache,
                   triviaPoolCache, poolCache, enrichmentCache, aux, geocodeInternalCache, trip, page>>

-----------------------------------------------------------------------------
(* The clock *)

Tick(instants) ==
    /\ \E t \in instants : t > now /\ now' = t
    /\ UNCHANGED <<hasPlacesKey, cityResolveCache, cityContextCache, triviaPoolCache,
                   poolCache, enrichmentCache, req, aux, seen, client,
                   geocodeInternalCache, trip, page>>

-----------------------------------------------------------------------------
(* Inputs *)

S_Paris == <<80, 97, 114, 105, 115>>                 \* "Paris"

S_Oslo == <<79, 115, 108, 111>>                      \* "Oslo"

S_ParisLabel == <<80, 97, 114, 105, 115, 44, 32, 70, 82>>   \* "Paris, FR"

S_pA == <<112, 65>>                                  \* place id "pA"

\* model candidates: "Q<i>" and "R<i>" are well-formed questions
GoodQ(letter, i, ci) == Cand(Str(<<letter, 48 + i>>), FourOptions, Num(ci), Str(S_fact))

\* correctIndex 1.5: a JSON number that is < 0 nor > 3
FracQ(letter, i) == Cand(Str(<<letter, 48 + i>>), FourOptions, Num2(3), Str(S_fact))

S_capitalQ ==
    <<87, 104, 97, 116, 32, 105, 115, 32, 116, 104, 101, 32, 99, 97, 112, 105, 116, 97,
      108, 32, 111, 102, 32, 70, 114, 97, 110, 99, 101, 63>>
                                                     \* "What is the capital of France?"

BadCandidates ==
    << Cand(Str(S_capitalQ), FourOptions, Num(1), Str(S_fact)),
       Cand(Str(<<66, 49>>), Arr(<<Str(<<65>>), Str(<<32, 97, 32>>), Str(<<67>>), Str(<<68>>)>>),
            Num(1), Str(S_fact)),                    \* "A" and " a " coincide
       Cand(Str(<<66, 50>>), FourOptions, Num(1), Str(<<32, 32, 97, 98, 32, 32>>)),
       Cand(Str(<<66, 51>>), Arr(<<Str(<<65>>), Str(<<66>>), Str(<<67>>)>>), Num(1), Str(S_fact)),
       Cand(Str(<<66, 52>>), FourOptions, Num(-1), Str(S_fact)),
       Cand(Str(<<66, 53>>), FourOptions, Num(4), Str(S_fact)),
       Cand(Str(<<66, 54>>), FourOptions, Str(<<49>>), Str(S_fact)),
       Cand(Str(<<66, 55>>), Arr(<<Str(<<65>>), Num(7), Str(<<67>>), Str(<<68>>)>>), Num(1),
            Str(S_fact)),
       Cand(Undef, FourOptions, Num(1), Str(S_fact)),
       Cand(Str(<<66, 57>>), FourOptions, Num(1), Num(12345)),
       Cand(Str(<<66, 58>>), FourOptions, Undef, Str(S_fact)),
       NullCand >>

BatchA == <<GoodQ(81, 1, 0), GoodQ(81, 2, 1), GoodQ(81, 3, 2), GoodQ(81, 4, 3), GoodQ(81, 5, 0)>>

BatchB == <<GoodQ(82, 1, 0), GoodQ(82, 2, 0), FracQ(82, 3)>>

BatchC == <<GoodQ(81, 1, 0), BadCandidates[1], BadCandidates[2], GoodQ(81, 2, 0),
            BadCandidates[3]>>

Threw == [kind |-> "throw", content |-> Content("bare", "empty", <<>>)]

Said(wrap, shape, items) == [kind |-> "text", content |-> Content(wrap, shape, items)]

ModelOutcomes ==
    { Threw,
      Said("bare", "array", BatchA), Said("prose", "objQuestions", BatchA),
      Said("fenced", "array", BatchB), Said("prose", "array", BatchC),
      Said("bare", "objQuestions", BadCandidates), Said("bare", "array", <<>>),
      Said("bare", "objBad", <<>>), Said("prose", "objOther", <<>>),
      Said("fenced", "scalar", <<>>), Said("bare", "truncated", BatchA),
      Said("bare", "empty", <<>>) }

ResolveOutcomes == {ResolveFail, ResolveOk(S_ParisLabel, S_pA)}

S_Louvre == <<76, 111, 117, 118, 114, 101>>          \* "Louvre"

ContextOutcomes ==
    { << <<Poi(<<49>>, S_Louvre), Poi(<<50>>, <<88, 121>>)>>,
         <<Poi(<<49>>, S_Louvre), Poi(<<51>>, S_Oslo)>> >> }

IdsOf(batch, placeId, difficulty) ==
    [k \in 1..Len(batch) |->
        Str(generateQuestionId(placeId, difficulty, JsToString(batch[k].question)))]

\* ids that are no question's hash: "#<i>"
Padding(n) == [i \in 1..n |-> Str(<<35>> \o DecDigits(i))]

X_none == Arr(<<>>)

X_allA == Arr(IdsOf(BatchA, S_pA, S_standard))

X_twoA == Arr(SubSeq(IdsOf(BatchA, S_pA, S_standard), 1, 2))

X_many == Arr(Padding(EXHAUSTED_OVER + 1) \o IdsOf(BatchA, S_pA, S_standard)
              \o IdsOf(BatchB, S_pA, S_standard))

X_eleven == Arr(Padding(DOUBLE_OVER + 1))

\* 31 entries, 30 of them distinct
X_repeats == Arr(Padding(EXHAUSTED_OVER) \o Padding(1))

QuizBodies ==
    { Body(Str(S_Paris), Undef, Undef, X_none, Undef, Undef),
      Body(Str(S_Paris), Undef, Undef, X_none, Str(S_pA), Str(S_ParisLabel)),
      Body(Str(S_Paris), Undef, Undef, X_allA, Str(S_pA), Undef),
      Body(Str(S_Paris), Undef, Undef, X_twoA, Str(S_pA), Undef),
      Body(Str(S_Paris), Undef, Num(3), X_twoA, Str(S_pA), Undef),
      Body(Str(S_Paris), Undef, Undef, X_many, Str(S_pA), Undef),
      Body(Str(S_Paris), Undef, Num(-1), X_eleven, Str(S_pA), Undef),
      Body(Str(S_Paris), Undef, Undef, Str(S_pA), Str(S_pA), Undef),
      Body(Str(S_Paris), Undef, Undef, X_repeats, Str(S_pA), Undef),
      Body(Str(S_Oslo), Str(S_challenge), Undef, X_many, Undef, Undef),
      Body(Str(S_Oslo), Str(S_challenge), Num(1), X_none, Undef, Undef),
      Body(Undef, Undef, Undef, X_none, Str(S_pA), Undef),
      Body(Num(5), Undef, Undef, X_none, Undef, Undef) }

-----------------------------------------------------------------------------
(* TripProvider (client/src/lib/tripContext.tsx): the suggestions and the   *)
(* itinerary with its undo history                                          *)

NoHistory(items) == [past |-> <<>>, present |-> items, future |-> <<>>]

\* the useState initial values
InitialTrip == [suggestions |-> <<>>, undoState |-> NoHistory(<<>>)]

\* { ...s, ...updates }
Spread(s, updates) ==
    [f \in (DOMAIN s) \cup (DOMAIN updates) |->
        IF f \in DOMAIN updates THEN updates[f] ELSE s[f]]

\* variant: the updates are spread into every suggestion
updateEverySuggestion(suggestions, placeId, updates) ==
    [k \in 1..Len(suggestions) |-> Spread(suggestions[k], updates)]

\* prev.map(s => s.placeId === placeId ? { ...s, ...updates } : s)
updateSuggestion(suggestions, placeId, updates) ==
    [k \in 1..Len(suggestions) |->
        IF suggestions[k].placeId = placeId THEN Spread(suggestions[k], updates)
        ELSE suggestions[k]]

\* an itinerary item; the fields the operations never read are left out
Item(id, title) == [id |-> id, title |-> title]

\* what [moved] = items.splice(fromIndex, 1) binds when nothing is removed
Undefined == [undefined |-> TRUE]

IsUndefined(i) == "undefined" \in DOMAIN i

\* crypto.randomUUID(): an id that no list of the history holds
UuidsOf(lists) ==
    UNION {{lists[k][j].id : j \in {j \in 1..Len(lists[k]) : ~IsUndefined(lists[k][j])}} :
              k \in 1..Len(lists)}

UsedIds(prev) == UuidsOf(prev.past) \cup UuidsOf(<<prev.present>>) \cup UuidsOf(prev.future)

randomUUID(prev) ==
    LET n == CHOOSE n \in 0..Cardinality(UsedIds(prev)) :
                 /\ <<85, n>> \notin UsedIds(prev)
                 /\ \A m \in 0..(n - 1) : <<85, m>> \in UsedIds(prev)
    IN  <<85, n>>

\* the index of the first element of present that .some() would stop at:
\* a match, or an undefined element (whose .id cannot be read)
SomeStops(present, item) ==
    {k \in 1..Len(present) :
        \/ IsUndefined(present[k])
        \/ present[k].id = item.id
        \/ present[k].title = item.title}

FirstStop(present, item) == CHOOSE k \in SomeStops(present, item) :
                                \A j \in SomeStops(present, item) : k <= j

\* prev.present.some(i => i.id === item.id || i.title === item.title) throws
addThrows(prev, item) ==
    /\ SomeStops(prev.present, item) # {}
    /\ IsUndefined(prev.present[FirstStop(prev.present, item)])

AlreadyPresent(prev, item) ==
    /\ SomeStops(prev.present, item) # {}
    /\ ~IsUndefined(prev.present[FirstStop(prev.present, item)])

\* variant: only the id is compared
addToItineraryById(prev, item) ==
    IF \E k \in 1..Len(prev.present) : prev.present[k].id = item.id THEN prev
    ELSE [past |-> Append(prev.past, prev.present),
          present |-> Append(prev.present,
                        [item EXCEPT !.id = IF item.id # <<>> THEN item.id
                                            ELSE randomUUID(prev)]),
          future |-> <<>>]

\* the updater of addToItinerary (not called when addThrows)
addToItinerary(prev, item) ==
    IF AlreadyPresent(prev, item) THEN prev
    ELSE [past |-> Append(prev.past, prev.present),
          present |-> Append(prev.present,
                        [item EXCEPT !.id = IF item.id # <<>> THEN item.id
                                            ELSE randomUUID(prev)]),
          future |-> <<>>]

\* prev.present.filter(i => i.id !== id) throws on an undefined element
removeThrows(prev) == \E k \in 1..Len(prev.present) : IsUndefined(prev.present[k])

IdIsNot(id, i) == i.id # id

\* variant: nothing is pushed when no item carries the id
removeFromItineraryIfPresent(prev, id) ==
    LET newPresent == SelectSeq(prev.present, LAMBDA i : IdIsNot(id, i))
    IN  IF newPresent = prev.present THEN prev
        ELSE [past |-> Append(prev.past, prev.present), present |-> newPresent,
              future |-> <<>>]

\* the updater of removeFromItinerary (not called when removeThrows)
removeFromItinerary(prev, id) ==
    LET newPresent == SelectSeq(prev.present, LAMBDA i : IdIsNot(id, i))
    IN  [past |-> Append(prev.past, prev.present), present |-> newPresent,
         future |-> <<>>]

\* Array.prototype.splice: the start index relative to the length
RelativeStart(start, len) ==
    IF start < 0 THEN (IF len + start > 0 THEN len + start ELSE 0)
    ELSE (IF start < len THEN start ELSE len)

\* items.splice(start, 1): the removed elements and what is left
SpliceOne(items, start) ==
    LET s == RelativeStart(start, Len(items))
    IN  IF s < Len(items)
        THEN [removed |-> <<items[s + 1]>>,
              items |-> SubSeq(items, 1, s) \o SubSeq(items, s + 2, Len(items))]
        ELSE [removed |-> <<>>, items |-> items]

\* items.splice(start, 0, x)
SpliceIn(items, start, x) ==
    LET s == RelativeStart(start, Len(items))
    IN  SubSeq(items, 1, s) \o <<x>> \o SubSeq(items, s + 1, Len(items))

\* the updater of reorderItinerary
reorderItinerary(prev, fromIndex, toIndex) ==
    LET cut == SpliceOne(prev.present, fromIndex)
        moved == IF cut.removed = <<>> THEN Undefined ELSE cut.removed[1]
        items == SpliceIn(cut.items, toIndex, moved)
    IN  [past |-> Append(prev.past, prev.present), present |-> items, future |-> <<>>]

setItinerary(items) == [past |-> <<>>, present |-> items, future |-> <<>>]

\* variant: the list undone is dropped instead of being kept for redo
undoForgets(prev) ==
    IF Len(prev.past) = 0 THEN prev
    ELSE [past |-> SubSeq(prev.past, 1, Len(prev.past) - 1),
          present |-> prev.past[Len(prev.past)],
          future |-> prev.future]

\* the updater of undo
undo(prev) ==
    IF Len(prev.past) = 0 THEN prev
    ELSE [past |-> SubSeq(prev.past, 1, Len(prev.past) - 1),
          present |-> prev.past[Len(prev.past)],
          future |-> <<prev.present>> \o prev.future]

\* the updater of redo
redo(prev) ==
    IF Len(prev.future) = 0 THEN prev
    ELSE [past |-> Append(prev.past, prev.present),
          present |-> prev.future[1],
          future |-> Tail(prev.future)]

\* the updater of clearItinerary
clearItinerary(prev) ==
    [past |-> Append(prev.past, prev.present), present |-> <<>>, future |-> <<>>]

canUndo(undoState) == Len(undoState.past) > 0

canRedo(undoState) == Len(undoState.future) > 0

\* one call of a TripProvider operation on the itinerary, and whether the
\* calls since the last empty start were additions, removals, in-range moves,
\* clears, undos and redos only
ItineraryCall(op, plain) == [op |-> op, plain |-> plain]

ItineraryFrame ==
    UNCHANGED <<now, hasPlacesKey, cityResolveCache, cityContextCache,
                triviaPoolCache, poolCache, enrichmentCache, req, seen, client,
                geocodeInternalCache, page>>

AddToItinerary(item) ==
    /\ ~addThrows(trip.undoState, item)
    /\ trip' = [trip EXCEPT !.undoState = addToItinerary(trip.undoState, item)]
    /\ aux' = [aux EXCEPT !.last = ItineraryCall("add", aux.last.plain)]
    /\ ItineraryFrame

RemoveFromItinerary(id) ==
    /\ ~removeThrows(trip.undoState)
    /\ trip' = [trip EXCEPT !.undoState = removeFromItinerary(trip.undoState, id)]
    /\ aux' = [aux EXCEPT !.last = ItineraryCall("remove", aux.last.plain)]
    /\ ItineraryFrame

InRange(present, fromIndex, toIndex) ==
    /\ 0 <= fromIndex /\ fromIndex < Len(present)
    /\ 0 <= toIndex /\ toIndex < Len(present)

ReorderItinerary(fromIndex, toIndex) ==
    /\ trip' = [trip EXCEPT !.undoState =
                   reorderItinerary(trip.undoState, fromIndex, toIndex)]
    /\ aux' = [aux EXCEPT !.last =
                   ItineraryCall("reorder",
                       aux.last.plain
                           /\ InRange(trip.undoState.present, fromIndex, toIndex))]
    /\ ItineraryFrame

SetItinerary(items) ==
    /\ trip' = [trip EXCEPT !.undoState = setItinerary(items)]
    /\ aux' = [aux EXCEPT !.last = ItineraryCall("set", items = <<>>)]
    /\ ItineraryFrame

Undo ==
    /\ trip' = [trip EXCEPT !.undoState = undo(trip.undoState)]
    /\ aux' = [aux EXCEPT !.last = ItineraryCall("undo", aux.last.plain)]
    /\ ItineraryFrame

Redo ==
    /\ trip' = [trip EXCEPT !.undoState = redo(trip.undoState)]
    /\ aux' = [aux EXCEPT !.last = ItineraryCall("redo", aux.last.plain)]
    /\ ItineraryFrame

ClearItinerary ==
    /\ trip' = [trip EXCEPT !.undoState = clearItinerary(trip.undoState)]
    /\ aux' = [aux EXCEPT !.last = ItineraryCall("clear", aux.last.plain)]
    /\ ItineraryFrame

\* resetTrip: the suggestions and the itinerary go back to their initial values
ResetTrip ==
    /\ trip' = [trip EXCEPT !.suggestions = <<>>, !.undoState = NoHistory(<<>>)]
    /\ aux' = [aux EXCEPT !.last = ItineraryCall("reset", TRUE)]
    /\ ItineraryFrame

-----------------------------------------------------------------------------
(* SuggestionsPage: the enrichment effect and enrichPool *)

\* a suggestion as the page holds it (strings as code units, absent fields
\* as the empty string)
Shown(placeId, title, description, funFact) ==
    [title |-> title, description |-> description, category |-> S_landmark,
     funFact |-> funFact, address |-> <<>>, placeId |-> placeId]

\* the page is not shown; refs[m] is the enrichingRef of the m-th mount,
\* pools are the calls of enrichPool still running, resolved holds the pool
\* whose promise resolved last
IdlePage ==
    [mounted |-> FALSE, mount |-> 0, refs |-> <<>>, pools |-> <<>>, resolved |-> <<>>]

POOL_CONCURRENCY == 2

\* let idx = 0, no worker started
NewPool(items, mount) ==
    [items |-> items, mount |-> mount, idx |-> 0, inFlight |-> {}, calls |-> <<>>,
     settled |-> {}, arrivals |-> <<>>, exited |-> 0, workers |-> 0]

\* one worker at the head of its loop: while (idx < items.length) { const i =
\* idx++; await fn(items[i]) }, or the end of the worker
WorkerTakes(pool) ==
    IF pool.idx < Len(pool.items)
    THEN [pool EXCEPT !.idx = @ + 1, !.inFlight = @ \cup {pool.idx + 1},
                      !.calls = Append(@, pool.idx + 1)]
    ELSE [pool EXCEPT !.exited = @ + 1]

RECURSIVE StartWorkers(_, _)
StartWorkers(pool, n) ==
    IF n = 0 THEN pool
    ELSE StartWorkers([WorkerTakes(pool) EXCEPT !.workers = @ + 1], n - 1)

\* Array.from({ length: concurrency }, async () => {...}): every worker runs
\* up to its first await
enrichPool(items, concurrency, mount) ==
    StartWorkers(NewPool(items, mount), concurrency)

\* Promise.all(workers) has resolved
PoolFinished(pool) == pool.exited = pool.workers

\* trip.suggestions.filter(s => s.placeId && s.description === "Loading
\* details..." && !enrichingRef.current.has(s.placeId))
Unenriched(suggestions, enrichingRef) ==
    LET Wanted(s) == /\ s.placeId # <<>>
                     /\ s.description = S_loading
                     /\ s.placeId \notin enrichingRef
    IN  SelectSeq(suggestions, Wanted)

PlaceIdsOf(items) == {items[k].placeId : k \in 1..Len(items)}

\* the enrichment effect of the mounted page, for the suggestions rendered
RunEffect(pg, suggestions) ==
    LET unenriched == Unenriched(suggestions, pg.refs[pg.mount])
    IN  IF Len(unenriched) = 0 THEN pg
        ELSE [pg EXCEPT !.refs[pg.mount] = @ \cup PlaceIdsOf(unenriched),
                        !.pools = Append(@, enrichPool(unenriched, POOL_CONCURRENCY,
                                                       pg.mount))]

\* what one enrich request gives the callback: a rejected request, or the
\* description and funFact of the body
EnrichFailed == [ok |-> FALSE, description |-> <<>>, funFact |-> <<>>]

EnrichData(description, funFact) ==
    [ok |-> TRUE, description |-> description, funFact |-> funFact]

\* the callback of enrichPool after its request settled, on the suggestions:
\* if (data.description && s.placeId) trip.updateSuggestion(...)
AfterEnrich(suggestions, s, reply) ==
    IF reply.ok /\ reply.description # <<>> /\ s.placeId # <<>>
    THEN updateSuggestion(suggestions, s.placeId,
                          [description |-> reply.description, funFact |-> reply.funFact])
    ELSE suggestions

\* the request of item i of pool p settles: update, finally-block, and the
\* worker goes round its loop
EnrichSettles(p, i, reply) ==
    /\ p \in 1..Len(page.pools)
    /\ i \in page.pools[p].inFlight
    /\ LET pool == page.pools[p]
           s == pool.items[i]
           after == WorkerTakes([pool EXCEPT !.inFlight = @ \ {i},
                                             !.settled = @ \cup {i},
                                             !.arrivals = Append(@, i)])
       IN  /\ trip' = [trip EXCEPT !.suggestions = AfterEnrich(@, s, reply)]
           /\ page' = IF PoolFinished(after)
                      THEN [page EXCEPT
                               !.refs[pool.mount] = @ \ {s.placeId},
                               !.pools = SubSeq(@, 1, p - 1) \o SubSeq(@, p + 1, Len(@)),
                               !.resolved = <<after>>]
                      ELSE [page EXCEPT
                               !.refs[pool.mount] = @ \ {s.placeId},
                               !.pools[p] = after]
    /\ UNCHANGED <<now, hasPlacesKey, cityResolveCache, cityContextCache, triviaPoolCache,
                   poolCache, enrichmentCache, geocodeInternalCache, req, aux, seen, client>>

\* the suggestions screen is shown: a new component with a new enrichingRef,
\* whose effect runs
PageMounts ==
    /\ ~page.mounted
    /\ page' = RunEffect([page EXCEPT !.mounted = TRUE, !.mount = @ + 1,
                                      !.refs = Append(@, {})],
                         trip.suggestions)
    /\ UNCHANGED <<now, hasPlacesKey, cityResolveCache, cityContextCache, triviaPoolCache,
                   poolCache, enrichmentCache, geocodeInternalCache, req, aux, seen, client,
                   trip>>

\* trip.setScreen("itinerary"): the component goes, its requests stay
PageUnmounts ==
    /\ page.mounted
    /\ page' = [page EXCEPT !.mounted = FALSE]
    /\ UNCHANGED <<now, hasPlacesKey, cityResolveCache, cityContextCache, triviaPoolCache,
                   poolCache, enrichmentCache, geocodeInternalCache, req, aux, seen, client,
                   trip>>

-----------------------------------------------------------------------------
(* The quiz endpoint serving one request after another *)

Init ==
    /\ now = 0
    /\ hasPlacesKey = TRUE
    /\ cityResolveCache = EmptyMap
    /\ cityContextCache = EmptyMap
    /\ triviaPoolCache = EmptyMap
    /\ poolCache = EmptyMap
    /\ enrichmentCache = EmptyMap
    /\ geocodeInternalCache = EmptyMap
    /\ trip = InitialTrip
    /\ page = IdlePage
    /\ req = [r \in ReqIds |-> IdleReq]
    /\ aux = IdleAux("quiz")
    /\ seen = EmptyMap
    /\ client = IdleClient

Receive ==
    /\ \E body \in QuizBodies, ro \in ResolveOutcomes, co \in ContextOutcomes :
           /\ body.city = Str(S_Oslo) => ro = ResolveFail
           /\ QuizStart(1, body, ro, co)
    /\ UNCHANGED <<seen, client>>

Lookup == \E st \in Streams : QuizLookup(1, st)

ModelReturn == \E out \in ModelOutcomes, st \in Streams : QuizModelReturn(1, out, st)

RegenReturn == \E out \in ModelOutcomes, st \in Streams : QuizRegenReturn(1, out, st)

Close == QuizClose(1)

Next == Receive \/ Lookup \/ ModelReturn \/ RegenReturn \/ Close

Spec == Init /\ [][Next]_vars

-----------------------------------------------------------------------------
(* The quiz endpoint serving two requests at once on the same trivia-pool   *)
(* key: each await of a handler is a point where the other handler may run  *)

BatchD == <<GoodQ(68, 1, 1), GoodQ(68, 2, 2), GoodQ(68, 3, 3), GoodQ(68, 4, 0)>>

RaceBodies ==
    { Body(Str(S_Paris), Undef, Undef, X_none, Str(S_pA), Str(S_ParisLabel)),
      Body(Str(S_Paris), Undef, Undef, X_allA, Str(S_pA), Undef) }

RaceOutcomes ==
    { Threw, Said("bare", "array", BatchA), Said("bare", "array", BatchD),
      Said("fenced", "array", BatchB) }

InitRace ==
    /\ now = 0
    /\ hasPlacesKey = TRUE
    /\ cityResolveCache = EmptyMap
    /\ cityContextCache = EmptyMap
    /\ triviaPoolCache = EmptyMap
    /\ poolCache = EmptyMap
    /\ enrichmentCache = EmptyMap
    /\ geocodeInternalCache = EmptyMap
    /\ trip = InitialTrip
    /\ page = IdlePage
    /\ req = [r \in ReqIds |-> IdleReq]
    /\ aux = IdleAux("quiz")
    /\ seen = EmptyMap
    /\ client = IdleClient

\* the handlers draw from one stream of random numbers
RaceStreams == {1}

RaceReceive(r) ==
    /\ \E body \in RaceBodies, co \in ContextOutcomes : QuizStart(r, body, ResolveFail, co)
    /\ UNCHANGED <<seen, client>>

RaceLookup(r) == \E st \in RaceStreams : QuizLookup(r, st)

RaceModelReturn(r) == \E out \in RaceOutcomes, st \in RaceStreams : QuizModelReturn(r, out, st)

RaceRegenReturn(r) == \E out \in RaceOutcomes, st \in RaceStreams : QuizRegenReturn(r, out, st)

RaceClose(r) == QuizClose(r)

NextRace ==
    \E r \in ReqIds :
        \/ RaceReceive(r)
        \/ RaceLookup(r)
        \/ RaceModelReturn(r)
        \/ RaceRegenReturn(r)
        \/ RaceClose(r)

SpecRace == InitRace /\ [][NextRace]_vars

-----------------------------------------------------------------------------
(* The client's loading step against the quiz endpoint *)

Unwrap(ids) == [k \in 1..Len(ids) |-> ids[k].s]

\* stores found in localStorage when the page loads: nothing, or the ids of
\* thirty-one earlier questions and of the questions "Q1".."Q5"
SeenStores ==
    { EmptyMap,
      Put(EmptyMap, S_Paris,
          Unwrap(Padding(EXHAUSTED_OVER + 1) \o IdsOf(BatchA, S_pA, S_standard))) }

ClientModelOutcomes ==
    { Threw, Said("bare", "array", BatchA), Said("fenced", "array", BatchB),
      Said("bare", "array", <<>>), Said("bare", "truncated", BatchA) }

InitClient ==
    /\ now = 0
    /\ hasPlacesKey = TRUE
    /\ cityResolveCache = EmptyMap
    /\ cityContextCache = EmptyMap
    /\ triviaPoolCache = EmptyMap
    /\ poolCache = EmptyMap
    /\ enrichmentCache = EmptyMap
    /\ geocodeInternalCache = EmptyMap
    /\ trip = InitialTrip
    /\ page = IdlePage
    /\ req = [r \in ReqIds |-> IdleReq]
    /\ aux = IdleAux("quiz")
    /\ seen \in SeenStores
    /\ client = IdleClient

EnterLoading == \E placeId \in {<<>>, S_pA} : ClientStart(S_Paris, placeId)

SendQuiz == \E ro \in ResolveOutcomes, co \in ContextOutcomes : ClientSend(ro, co)

ServerLookup == \E st \in Streams : QuizLookup(1, st) /\ client.pc = "waiting"

ServerModelReturn ==
    \E out \in ClientModelOutcomes, st \in Streams :
        QuizModelReturn(1, out, st) /\ client.pc = "waiting"

ServerRegenReturn ==
    \E out \in ClientModelOutcomes, st \in Streams :
        QuizRegenReturn(1, out, st) /\ client.pc = "waiting"

NextClient ==
    \/ EnterLoading
    \/ SendQuiz
    \/ ServerLookup
    \/ ServerModelReturn
    \/ ServerRegenReturn
    \/ ClientReceive

SpecClient == InitClient /\ [][NextClient]_vars

-----------------------------------------------------------------------------
(* The five caches under the clock.  The caches of different endpoints     *)
(* share nothing but the clock, so a behaviour exercises one endpoint: the *)
(* quiz endpoint (city-resolve, city-context and trivia-pool caches), the  *)
(* places pool, or the enrichment endpoint.                                *)

Endpoints == {"quiz", "pool", "enrich"}

TtlOf(endpoint) ==
    CASE endpoint = "quiz" -> CITY_CACHE_TTL
      [] endpoint = "pool" -> POOL_CACHE_TTL
      [] OTHER -> ENRICHMENT_CACHE_TTL

\* the instants at which the clock is read: the start, the last second
\* before the endpoint's TTL has passed, and the second it has passed
Instants(endpoint) == {0, TtlOf(endpoint) - 1, TtlOf(endpoint)}

S_fact1889 ==
    <<84, 104, 101, 32, 116, 111, 119, 101, 114, 32, 119, 97, 115, 32, 99, 111, 109,
      112, 108, 101, 116, 101, 100, 32, 105, 110, 32, 49, 56, 56, 57, 32, 97, 110, 100,
      32, 115, 116, 97, 110, 100, 115, 32, 51, 51, 48, 32, 109, 101, 116, 114, 101,
      115, 32, 116, 97, 108, 108, 32, 97, 98, 111, 118, 101, 32, 116, 104, 101, 32,
      114, 105, 118, 101, 114, 32, 98, 97, 110, 107>>
        \* "The tower was completed in 1889 and stands 330 metres tall above the river bank"

S_factBanned ==
    <<73, 116, 32, 105, 115, 32, 97, 32, 112, 111, 112, 117, 108, 97, 114, 32, 115,
      112, 111, 116, 32, 116, 104, 97, 116, 32, 101, 118, 101, 114, 121, 32, 116, 114,
      97, 118, 101, 108, 108, 101, 114, 32, 115, 104, 111, 117, 108, 100, 32, 115, 101,
      101, 32, 97, 116, 32, 108, 101, 97, 115, 116, 32, 111, 110, 99, 101, 32, 105,
      110, 32, 97, 32, 108, 105, 102, 101, 116, 105, 109, 101, 32, 104, 101, 114, 101>>
        \* "It is a popular spot that every traveller should see at least once in a lifetime here"

S_museum == <<65, 32, 109, 117, 115, 101, 117, 109, 46>>        \* "A museum."

S_pL == <<112, 76>>                                  \* place id "pL"

EnrichBodies ==
    { EnrichBody(Str(S_Paris), Str(S_Louvre), Undef, Str(S_pL)),
      EnrichBody(Str(S_Paris), Str(S_Louvre), Str(S_landmark), Undef),
      EnrichBody(Str(S_Paris), Undef, Undef, Str(S_pL)) }

EnrichOutcomes ==
    { Threw,
      Said("bare", "objEnrich", <<Str(S_museum), Str(S_fact1889)>>),
      Said("prose", "objEnrich", <<Undef, Str(S_factBanned)>>),
      Said("bare", "objEnrich", <<Str(S_museum), Str(S_factBanned)>>),
      Said("fenced", "objEnrich", <<Str(S_museum), Num(7)>>),
      Said("bare", "truncated", <<>>) }

PoolCities == {S_Paris, <<32>> \o S_paris \o <<32>>}

PoolOutcomes ==
    { [k \in 1..6 |-> <<>>],
      [k \in 1..6 |-> IF k = 1 THEN <<Place(<<49>>, S_Louvre), Place(<<50>>, S_Oslo)>>
                      ELSE IF k = 2 THEN <<Place(<<50>>, S_Oslo), Place(<<51>>, S_Paris)>>
                      ELSE <<>>] }

TTLBodies ==
    { Body(Str(S_Paris), Undef, Undef, X_none, Undef, Undef),
      Body(Str(S_Paris), Undef, Undef, X_allA, Str(S_pA), Undef) }

TTLModelOutcomes == {Threw, Said("bare", "array", BatchA)}

InitTTL ==
    /\ now = 0
    /\ hasPlacesKey \in BOOLEAN
    /\ cityResolveCache = EmptyMap
    /\ cityContextCache = EmptyMap
    /\ triviaPoolCache = EmptyMap
    /\ poolCache = EmptyMap
    /\ enrichmentCache = EmptyMap
    /\ geocodeInternalCache = EmptyMap
    /\ trip = InitialTrip
    /\ page = IdlePage
    /\ req = [r \in ReqIds |-> IdleReq]
    /\ aux \in {IdleAux(e) : e \in Endpoints}
    /\ seen = EmptyMap
    /\ client = IdleClient

ClockAdvances == Tick(Instants(aux.exercised))

QuizReceive ==
    /\ aux.exercised = "quiz"
    /\ \E body \in TTLBodies, ro \in ResolveOutcomes, co \in ContextOutcomes :
           QuizStart(1, body, ro, co)
    /\ UNCHANGED <<seen, client>>

QuizCacheLookup == \E st \in Streams : QuizLookup(1, st) /\ aux.exercised = "quiz"

QuizGenerated ==
    \E out \in TTLModelOutcomes, st \in Streams :
        QuizModelReturn(1, out, st) /\ aux.exercised = "quiz"

QuizRegenerated ==
    \E out \in TTLModelOutcomes, st \in Streams :
        QuizRegenReturn(1, out, st) /\ aux.exercised = "quiz"

QuizAnswered == QuizClose(1) /\ aux.exercised = "quiz"

PoolFetched ==
    /\ aux.exercised = "pool"
    /\ \E city \in PoolCities, out \in PoolOutcomes : FetchGooglePlacesPool(city, out)

PoiEnriched ==
    /\ aux.exercised = "enrich"
    /\ \E body \in EnrichBodies, out \in EnrichOutcomes : EnrichPoi(body, out)

NextTTL ==
    \/ ClockAdvances
    \/ QuizReceive
    \/ QuizCacheLookup
    \/ QuizGenerated
    \/ QuizRegenerated
    \/ QuizAnswered
    \/ PoolFetched
    \/ PoiEnriched

SpecTTL == InitTTL /\ [][NextTTL]_vars

-----------------------------------------------------------------------------
(* Specification of the helper functions: one call of one function per      *)
(* behaviour, its arguments chosen by Init                                  *)

\* the values Math.floor(Math.random() * (i + 1)) can take at i = 3, 2, 1
DrawSet == {<<a, b, c>> : a \in 0..3, b \in 0..2, c \in 0..1}

\* options with a repeated text
TwinOptions == Arr(<<Str(<<65>>), Str(<<65>>), Str(<<67>>), Str(<<68>>)>>)

ShuffleInputs ==
    {Cand(Str(<<81, 49>>), options, Num(ci), Str(S_fact)) :
        options \in {FourOptions, TwinOptions}, ci \in 0..3}

Call(fn, arg) == [exercised |-> fn, arg |-> arg, returned |-> FALSE, value |-> <<>>]

S_minText == <<80, 66, 65, 81, 88, 80, 78>>    \* "PBAQXPN": hashes to -2^31 under "pA|standard|"

S_accents == <<233, 116, 233>>                 \* "ete" with acute accents

S_han == <<65, 20013>>                         \* "A" and U+4E2D

QuestionTextInputs == {<<81, 49>>, S_capitalQ, S_minText, S_accents, S_han}

\* the arguments of the handler's generateQuestionId(cityPlaceId, difficulty,
\* q.question) calls
QuestionIdInputs ==
    {[cityPlaceId |-> p, difficulty |-> d, q |-> Cand(Str(text), options, Num(ci), Str(fact))] :
        p \in {S_pA, <<>>}, d \in {S_standard, S_challenge}, text \in QuestionTextInputs,
        options \in {FourOptions, TwinOptions}, ci \in {0, 3}, fact \in {S_fact}}

\* "A popular spot for tourists."
S_popularSpot ==
    <<65, 32, 112, 111, 112, 117, 108, 97, 114, 32, 115, 112, 111, 116, 32,
      102, 111, 114, 32, 116, 111, 117, 114, 105, 115, 116, 115, 46>>

\* "Built in 1887, the tower weighs 10,100 tons."
S_built1887 ==
    <<66, 117, 105, 108, 116, 32, 105, 110, 32, 49, 56, 56, 55, 44, 32, 116,
      104, 101, 32, 116, 111, 119, 101, 114, 32, 119, 101, 105, 103, 104,
      115, 32, 49, 48, 44, 49, 48, 48, 32, 116, 111, 110, 115, 46>>

\* "Built in 1887, the tower weighs 10,100 tons and still stands in Paris today."
S_built1887Long ==
    <<66, 117, 105, 108, 116, 32, 105, 110, 32, 49, 56, 56, 55, 44, 32, 116,
      104, 101, 32, 116, 111, 119, 101, 114, 32, 119, 101, 105, 103, 104,
      115, 32, 49, 48, 44, 49, 48, 48, 32, 116, 111, 110, 115, 32, 97, 110,
      100, 32, 115, 116, 105, 108, 108, 32, 115, 116, 97, 110, 100, 115, 32,
      105, 110, 32, 80, 97, 114, 105, 115, 32, 116, 111, 100, 97, 121, 46>>

FunFactInputs == {S_popularSpot, S_built1887, S_built1887Long, S_fact1889, S_factBanned}

Calls ==
    {Call("shuffleOptions", q) : q \in ShuffleInputs}
        \cup {Call("generateQuestionId", a) : a \in QuestionIdInputs}
        \cup {Call("isValidFunFact", fact) : fact \in FunFactInputs}

InitFn ==
    /\ now = 0
    /\ hasPlacesKey = TRUE
    /\ cityResolveCache = EmptyMap
    /\ cityContextCache = EmptyMap
    /\ triviaPoolCache = EmptyMap
    /\ poolCache = EmptyMap
    /\ enrichmentCache = EmptyMap
    /\ geocodeInternalCache = EmptyMap
    /\ trip = InitialTrip
    /\ page = IdlePage
    /\ req = [r \in ReqIds |-> IdleReq]
    /\ aux \in Calls
    /\ seen = EmptyMap
    /\ client = IdleClient

Return(value) ==
    /\ ~aux.returned
    /\ aux' = [aux EXCEPT !.returned = TRUE, !.value = value]
    /\ UNCHANGED <<now, hasPlacesKey, cityResolveCache, cityContextCache, triviaPoolCache,
                   poolCache, enrichmentCache, req, seen, client, geocodeInternalCache, trip, page>>

ShuffleOptionsCall ==
    /\ aux.exercised = "shuffleOptions"
    /\ \E js \in DrawSet : Return(shuffleOptions(aux.arg, js))

GenerateQuestionIdCall ==
    /\ aux.exercised = "generateQuestionId"
    /\ Return(generateQuestionId(aux.arg.cityPlaceId, aux.arg.difficulty,
                                 JsToString(aux.arg.q.question)))

IsValidFunFactCall ==
    /\ aux.exercised = "isValidFunFact"
    /\ Return(isValidFunFact(aux.arg))

NextFn ==
    \/ ShuffleOptionsCall
    \/ GenerateQuestionIdCall
    \/ IsValidFunFactCall

SpecFn == InitFn /\ [][NextFn]_vars

-----------------------------------------------------------------------------
(* Specification of the suggestions endpoint: requests to                   *)
(* POST /api/suggestions/generate, with enrichment requests in between      *)

S_Tower == <<84, 111, 119, 101, 114>>                      \* "Tower"

S_Bistro == <<66, 105, 115, 116, 114, 111>>                \* "Bistro"

S_Garden == <<71, 97, 114, 100, 101, 110>>               \* "Garden"

S_Arena == <<65, 114, 101, 110, 97>>                      \* "Arena"

S_Summit == <<83, 117, 109, 109, 105, 116>>              \* "Summit"

S_Ritz == <<82, 105, 116, 122>>                            \* "Ritz"

\* seven places: the Louvre 8 km and the Tower 2 km north of the hotel with
\* the same score, two places called "Bistro", the Summit 111 km away
P_Louvre == RatedPlace(S_pL, S_Louvre, 72, 47, 999)

P_Tower == RatedPlace(<<50>>, S_Tower, 18, 47, 999)

P_Bistro3 == RatedPlace(<<51>>, S_Bistro, 30, 40, 99)

P_Bistro4 == RatedPlace(<<52>>, S_Bistro, 40, 40, 99)

P_Garden == RatedPlace(<<53>>, S_Garden, 10, 45, 9)

P_Summit == RatedPlace(<<54>>, S_Summit, 1000, 50, 999)

P_Arena == RatedPlace(<<>>, S_Arena, 5, 30, 0)

\* the results of the six queries
SixEmpty == [k \in 1..6 |-> <<>>]

SixQueries ==
    [k \in 1..6 |->
        CASE k = 1 -> <<P_Louvre, P_Tower, P_Summit>>
          [] k = 2 -> <<P_Tower, P_Bistro3>>
          [] k = 5 -> <<P_Bistro3, P_Bistro4, P_Arena>>
          [] k = 6 -> <<P_Garden, P_Summit>>
          [] OTHER -> <<>>]

SuggestPoolOutcomes == {SixEmpty, SixQueries}

Titles(list) == Arr([k \in 1..Len(list) |-> Str(list[k])])

SuggestBodies ==
    { SuggestBody(Str(S_Paris), Undef, Undef, Undef),
      SuggestBody(Str(S_Paris), Str(S_Ritz), Undef, Undef),
      SuggestBody(Str(S_Paris), Str(S_Ritz),
                  Titles(<<<<32>> \o toLowerCase(S_Tower) \o <<32>>, S_Louvre>>),
                  Titles(<<<<51>>, <<>>>>)),
      SuggestBody(Str(S_Paris), Undef,
                  Titles(<<S_Louvre, S_Tower, S_Bistro, S_Garden, S_Summit, S_Arena,
                           <<101, 105, 102, 102, 101, 108, 32, 116, 111, 119, 101, 114>>>>),
                  Undef),
      SuggestBody(Str(S_Paris), Undef, Arr(<<Num(7)>>), Undef),
      SuggestBody(Str(S_Paris), Undef, Undef, Null),
      SuggestBody(Str(S_Oslo), Str(S_Ritz), Undef, Undef),
      SuggestBody(Undef, Undef, Undef, Undef) }

\* the hotel is at the origin of the meridian when the geocoder finds it
GeocodeOutcomes ==
    { <<Coords(0, 0), NoCoords>>, <<NoCoords, Coords(0, 0)>>, <<NoCoords, NoCoords>> }

SuggestEnrichBodies == {EnrichBody(Str(S_Paris), Str(S_Louvre), Undef, Str(S_pL))}

SuggestEnrichOutcomes == {Said("bare", "objEnrich", <<Str(S_museum), Str(S_fact1889)>>)}

InitSuggest ==
    /\ now = 0
    /\ hasPlacesKey \in BOOLEAN
    /\ cityResolveCache = EmptyMap
    /\ cityContextCache = EmptyMap
    /\ triviaPoolCache = EmptyMap
    /\ poolCache = EmptyMap
    /\ enrichmentCache = EmptyMap
    /\ geocodeInternalCache = EmptyMap
    /\ trip = InitialTrip
    /\ page = IdlePage
    /\ req = [r \in ReqIds |-> IdleReq]
    /\ aux = IdleAux("suggest")
    /\ seen = EmptyMap
    /\ client = IdleClient

\* the upstream outcomes that a request can consult: none for a request
\* without hotel location, none for a city whose pool is cached
GeocodeOutcomesFor(body) ==
    IF Truthy(body.city) /\ Truthy(body.hotelLocation) THEN GeocodeOutcomes
    ELSE {<<NoCoords, NoCoords>>}

PoolOutcomesFor(body) ==
    IF Truthy(body.city)
       /\ ~Fresh(poolCache, trim(toLowerCase(JsToString(body.city))), POOL_CACHE_TTL)
    THEN SuggestPoolOutcomes ELSE {SixEmpty}

SuggestRequest ==
    \E body \in SuggestBodies :
        \E geoOuts \in GeocodeOutcomesFor(body), poolOut \in PoolOutcomesFor(body) :
            SuggestionsGenerate(body, geoOuts, poolOut)

EnrichRequest ==
    \E body \in SuggestEnrichBodies, out \in SuggestEnrichOutcomes : EnrichPoi(body, out)

NextSuggest ==
    \/ SuggestRequest
    \/ EnrichRequest

SpecSuggest == InitSuggest /\ [][NextSuggest]_vars

-----------------------------------------------------------------------------
(* Specification of getCityContext: one call, its two fetches settling in   *)
(* either order                                                             *)

L_first == <<Poi(<<49>>, S_Louvre), Poi(<<50>>, <<88, 121>>), Poi(<<52>>, S_Tower)>>

L_second ==
    <<Poi(<<49>>, S_Oslo), Poi(<<51>>, S_Louvre), Poi(<<53>>, <<88, 121>>),
      Poi(<<51>>, S_Tower)>>

\* places without an id
L_noIds == <<Poi(<<>>, S_Garden), Poi(<<>>, S_Arena)>>

\* more places than the page size asked for
L_long(from, n) == [k \in 1..n |-> Poi(<<from + k>>, S_Louvre \o <<from + k>>)]

FirstOutcomes == {Rejected, TimedOut, Status, NoPlaces, Places(L_first), Places(L_long(64, 12))}

SecondOutcomes == {Rejected, TimedOut, Places(L_second), Places(L_noIds), Places(L_long(74, 12))}

NoContext == [cityLabel |-> <<>>, placeId |-> <<>>, pois |-> <<>>]

OldContext == [cityLabel |-> S_ParisLabel, placeId |-> S_pA, pois |-> L_noIds]

ContextCallOf(placeId, cityLabel, upstream) ==
    [exercised |-> "getCityContext", placeId |-> placeId, cityLabel |-> cityLabel,
     upstream |-> upstream, phase |-> "idle", pending |-> {},
     results |-> <<Unsettled, Unsettled>>, order |-> <<>>, startedAt |-> 0,
     called |-> FALSE, value |-> NoContext]

InitContext ==
    /\ now \in {0, CITY_CACHE_TTL}
    /\ hasPlacesKey \in BOOLEAN
    /\ cityResolveCache = EmptyMap
    /\ cityContextCache \in {EmptyMap, Put(EmptyMap, S_pA, [data |-> OldContext, ts |-> 0])}
    /\ triviaPoolCache = EmptyMap
    /\ poolCache = EmptyMap
    /\ enrichmentCache = EmptyMap
    /\ geocodeInternalCache = EmptyMap
    /\ trip = InitialTrip
    /\ page = IdlePage
    /\ req = [r \in ReqIds |-> IdleReq]
    /\ aux \in {ContextCallOf(S_pA, S_ParisLabel, <<o1, o2>>) :
                   o1 \in FirstOutcomes, o2 \in SecondOutcomes}
    /\ seen = EmptyMap
    /\ client = IdleClient

\* the call up to `await Promise.all`: answered from the cache, answered
\* empty without a key, or both fetches sent
ContextCall ==
    /\ aux.phase = "idle"
    /\ IF Fresh(cityContextCache, aux.placeId, CITY_CACHE_TTL)
       THEN aux' = [aux EXCEPT !.phase = "returned",
                               !.value = cityContextCache[aux.placeId].data]
       ELSE IF ~hasPlacesKey
       THEN aux' = [aux EXCEPT !.phase = "returned",
                               !.value = [cityLabel |-> aux.cityLabel,
                                          placeId |-> aux.placeId, pois |-> <<>>]]
       ELSE aux' = [aux EXCEPT !.phase = "fetching", !.pending = {1, 2},
                               !.startedAt = now, !.called = TRUE]
    /\ UNCHANGED <<now, hasPlacesKey, cityResolveCache, cityContextCache, triviaPoolCache,
                   poolCache, enrichmentCache, req, seen, client, geocodeInternalCache, trip, page>>

\* the callback of query i resolves; an aborted fetch does so FETCH_TIMEOUT
\* after the call
FetchSettles(i) ==
    /\ aux.phase = "fetching"
    /\ i \in aux.pending
    /\ aux' = [aux EXCEPT !.pending = @ \ {i},
                          !.results = Settle(@, i, FetchedList(aux.upstream[i])),
                          !.order = Append(@, i)]
    /\ now' = IF aux.upstream[i].kind = "timeout" /\ now < aux.startedAt + FETCH_TIMEOUT
              THEN aux.startedAt + FETCH_TIMEOUT
              ELSE now
    /\ UNCHANGED <<hasPlacesKey, cityResolveCache, cityContextCache, triviaPoolCache,
                   poolCache, enrichmentCache, req, seen, client, geocodeInternalCache, trip, page>>

\* after Promise.all: merge, cache, return
ContextMerge ==
    /\ aux.phase = "fetching"
    /\ aux.pending = {}
    /\ LET ctx == BuildContext(aux.placeId, aux.cityLabel, aux.results)
       IN  /\ cityContextCache' = Put(cityContextCache, aux.placeId,
                                      [data |-> ctx, ts |-> now])
           /\ aux' = [aux EXCEPT !.phase = "returned", !.value = ctx]
    /\ UNCHANGED <<now, hasPlacesKey, cityResolveCache, triviaPoolCache,
                   poolCache, enrichmentCache, req, seen, client, geocodeInternalCache, trip, page>>

NextContext ==
    \/ ContextCall
    \/ \E i \in {1, 2} : FetchSettles(i)
    \/ ContextMerge

SpecContext == InitContext /\ [][NextContext]_vars

-----------------------------------------------------------------------------
(* HomePage.handleStart, LoadingPage's effect and fetchData, and the        *)
(* buttons that leave the loading and quiz screens: the requests of         *)
(* fetchData stay in flight when the screen changes                         *)

\* what a response carried: the fetch and the city it was requested for
NoData == [of |-> 0, city |-> <<>>]

DataOf(r) == [of |-> r.id, city |-> r.city]

\* TripProvider's screen, city, mode, fetchId, questions and suggestions, and
\* the fetchData calls awaiting their response
HomeScreen ==
    [screen |-> "home", city |-> <<>>, mode |-> "quiz", fetchId |-> 0,
     questions |-> NoData, suggestions |-> NoData, inFlight |-> {}]

\* LoadingPage mounts with lastFetchId.current = -1, so its effect calls
\* fetchData, which reads city and mode from the trip it was rendered with
StartFetch(c) ==
    [c EXCEPT !.fetchId = c.fetchId + 1,
              !.screen = "loading",
              !.inFlight = c.inFlight \cup
                  {[id |-> c.fetchId + 1, city |-> c.city, mode |-> c.mode]}]

\* part_002:35-53, after the city was typed and the mode picked
HandleStart(city, mode) ==
    /\ client.screen = "home"
    /\ client' = StartFetch([client EXCEPT !.city = city, !.mode = mode,
                                           !.suggestions = NoData])
    /\ UNCHANGED <<now, hasPlacesKey, cityResolveCache, cityContextCache,
                   triviaPoolCache, poolCache, enrichmentCache, req, aux, seen,
                   geocodeInternalCache, trip, page>>

\* loading.tsx:193-202
CancelLoading ==
    /\ client.screen = "loading"
    /\ client' = [client EXCEPT !.screen = "home"]
    /\ UNCHANGED <<now, hasPlacesKey, cityResolveCache, cityContextCache,
                   triviaPoolCache, poolCache, enrichmentCache, req, aux, seen,
                   geocodeInternalCache, trip, page>>

\* quiz.tsx:133
QuizBack ==
    /\ client.screen = "quiz"
    /\ client' = [client EXCEPT !.screen = "home"]
    /\ UNCHANGED <<now, hasPlacesKey, cityResolveCache, cityContextCache,
                   triviaPoolCache, poolCache, enrichmentCache, req, aux, seen,
                   geocodeInternalCache, trip, page>>

\* quiz.tsx:112-118
ContinueToSuggestions ==
    /\ client.screen = "quiz"
    /\ client' = StartFetch([client EXCEPT !.mode = "planning"])
    /\ UNCHANGED <<now, hasPlacesKey, cityResolveCache, cityContextCache,
                   triviaPoolCache, poolCache, enrichmentCache, req, aux, seen,
                   geocodeInternalCache, trip, page>>

\* what fetchData does with the response of r: "data" for questions or
\* suggestions, "none" for an error or an empty list of questions, "threw"
\* for a rejected request (loading.tsx:100-152); activeTripId is null
AfterResponse(c, r, reply) ==
    LET left == [c EXCEPT !.inFlight = c.inFlight \ {r}]
    IN  IF reply = "threw" \/ (r.mode = "quiz" /\ reply = "none")
        THEN [left EXCEPT !.screen = "home"]
        ELSE IF r.mode = "quiz"
        THEN [left EXCEPT !.questions = DataOf(r), !.screen = "quiz"]
        ELSE [left EXCEPT !.suggestions = DataOf(r), !.screen = "suggestions"]

FetchResponds(r, reply) ==
    /\ r \in client.inFlight
    /\ client' = AfterResponse(client, r, reply)
    /\ UNCHANGED <<now, hasPlacesKey, cityResolveCache, cityContextCache,
                   triviaPoolCache, poolCache, enrichmentCache, req, aux, seen,
                   geocodeInternalCache, trip, page>>

-----------------------------------------------------------------------------
(* geocodeCached with its await: lookups of several requests may start      *)
(* before an earlier upstream call has settled                              *)

\* what the upstream call of one lookup comes to: coordinates, an empty
\* result list, an abort after the timeout, or a network error
Geocoded(lat, lng) == [kind |-> "found", coords |-> Coords(lat, lng)]

GeocodeEmpty == [kind |-> "empty", coords |-> NoCoords]

GeocodeTimeout == [kind |-> "timeout", coords |-> NoCoords]

GeocodeError == [kind |-> "error", coords |-> NoCoords]

\* what geocodeCached returns for the outcome of its call: the coordinates,
\* or null from the empty-result branch and from the catch block
GeocodeValue(out) == IF out.kind = "found" THEN out.coords ELSE NoCoords

\* variant: only coordinates are remembered
SettledCacheIfFound(cache, key, out) ==
    IF out.kind = "found" THEN Put(cache, key, out.coords) ELSE cache

\* the cache after the call for key has settled: the value returned is set
\* on every path
SettledCache(cache, key, out) == Put(cache, key, GeocodeValue(out))

\* a lookup: its address and key, whether it called upstream, what it
\* returned, and the positions of its start and its return among the events
GeocodeLookup(address, called, settled, result, startedAt, settledAt) ==
    [address |-> address, key |-> trim(toLowerCase(address)), called |-> called,
     settled |-> settled, result |-> result, startedAt |-> startedAt,
     settledAt |-> settledAt]

IdleGeocoder == [exercised |-> "geocode", last |-> NoCall, lookups |-> <<>>, clock |-> 0]

GeocodeFrame ==
    UNCHANGED <<now, hasPlacesKey, cityResolveCache, cityContextCache,
                triviaPoolCache, poolCache, enrichmentCache, req, seen, client,
                trip, page>>

\* lines 984-985, and the start of the fetch of lines 987-999 on a miss
GeocodeStarts(address) ==
    /\ LET key == trim(toLowerCase(address))
           at == aux.clock + 1
       IN  aux' = [aux EXCEPT
               !.clock = at,
               !.lookups = Append(aux.lookups,
                   IF Has(geocodeInternalCache, key)
                   THEN GeocodeLookup(address, FALSE, TRUE, geocodeInternalCache[key], at, at)
                   ELSE GeocodeLookup(address, TRUE, FALSE, NoCoords, at, 0))]
    /\ UNCHANGED geocodeInternalCache
    /\ GeocodeFrame

\* lines 1000-1011: the fetch of lookup i settles
GeocodeSettles(i, out) ==
    /\ i \in 1..Len(aux.lookups)
    /\ ~aux.lookups[i].settled
    /\ geocodeInternalCache' = SettledCache(geocodeInternalCache, aux.lookups[i].key, out)
    /\ aux' = [aux EXCEPT
           !.clock = aux.clock + 1,
           !.lookups[i].settled = TRUE,
           !.lookups[i].result = GeocodeValue(out),
           !.lookups[i].settledAt = aux.clock + 1]
    /\ GeocodeFrame

\* at most this many lookups are made
MAX_LOOKUPS == 3

S_ritzPadded == <<32>> \o toLowerCase(S_Ritz) \o <<32>>           \* " ritz "

AddressesLookedUp == {S_Ritz, S_ritzPadded, S_Oslo}

UpstreamOutcomes == {Geocoded(0, 0), Geocoded(9, 9), GeocodeEmpty, GeocodeTimeout, GeocodeError}

InitGeocode ==
    /\ now = 0
    /\ hasPlacesKey = TRUE
    /\ cityResolveCache = EmptyMap
    /\ cityContextCache = EmptyMap
    /\ triviaPoolCache = EmptyMap
    /\ poolCache = EmptyMap
    /\ enrichmentCache = EmptyMap
    /\ geocodeInternalCache = EmptyMap
    /\ trip = InitialTrip
    /\ page = IdlePage
    /\ req = [r \in ReqIds |-> IdleReq]
    /\ aux = IdleGeocoder
    /\ seen = EmptyMap
    /\ client = IdleClient

HotelLookedUp ==
    /\ Len(aux.lookups) < MAX_LOOKUPS
    /\ \E address \in AddressesLookedUp : GeocodeStarts(address)

UpstreamAnswers ==
    \E i \in 1..Len(aux.lookups), out \in UpstreamOutcomes : GeocodeSettles(i, out)

NextGeocode ==
    \/ HotelLookedUp
    \/ UpstreamAnswers

SpecGeocode == InitGeocode /\ [][NextGeocode]_vars

-----------------------------------------------------------------------------
(* Specification of caller-driven pagination: one caller asking             *)
(* POST /api/suggestions/generate for page after page, each request         *)
(* excluding what the earlier pages returned                                *)

\* the titles and the non-empty place ids of the pages received so far
RECURSIVE FlatPages(_)
FlatPages(pages) == IF pages = <<>> THEN <<>> ELSE Head(pages) \o FlatPages(Tail(pages))

ReturnedTitles(pages) ==
    LET all == FlatPages(pages) IN [k \in 1..Len(all) |-> all[k].title]

HasPlaceId(s) == Truthy(s.placeId)

ReturnedPlaceIds(pages) ==
    LET all == SelectSeq(FlatPages(pages), HasPlaceId)
    IN  [k \in 1..Len(all) |-> all[k].placeId]

\* what a caller may exclude beyond the pages it received
ExtraExclusions == {<<>>, <<S_Garden>>}

PagedCities == {S_Paris, S_Oslo}

PagedHotels == {Undef, Str(S_Ritz)}

IdlePaging(city, hotelLocation) ==
    [exercised |-> "paginate", last |-> NoCall, city |-> city,
     hotelLocation |-> hotelLocation, pages |-> <<>>]

InitPaginate ==
    /\ now = 0
    /\ hasPlacesKey \in BOOLEAN
    /\ cityResolveCache = EmptyMap
    /\ cityContextCache = EmptyMap
    /\ triviaPoolCache = EmptyMap
    /\ poolCache = EmptyMap
    /\ enrichmentCache = EmptyMap
    /\ geocodeInternalCache = EmptyMap
    /\ trip = InitialTrip
    /\ page = IdlePage
    /\ req = [r \in ReqIds |-> IdleReq]
    /\ aux \in {IdlePaging(city, hotelLocation) :
                   city \in PagedCities, hotelLocation \in PagedHotels}
    /\ seen = EmptyMap
    /\ client = IdleClient

\* the body of the next request: exclude holds every title and
\* excludePlaceIds every place id of the earlier pages
PagedBody(extra) ==
    SuggestBody(Str(aux.city), aux.hotelLocation,
                Titles(ReturnedTitles(aux.pages) \o extra),
                Arr(ReturnedPlaceIds(aux.pages)))

\* one more page is asked for, unless the last one came back empty
PageRequested(extra, geoOuts, poolOut) ==
    /\ IF aux.pages = <<>> THEN TRUE ELSE aux.pages[Len(aux.pages)] # <<>>
    /\ LET body == PagedBody(extra)
           done == suggestionsGenerate(body, geoOuts, poolOut)
       IN  /\ geocodeInternalCache' = done.geocodes
           /\ poolCache' = done.pools
           /\ aux' = [aux EXCEPT
                  !.last = [op |-> "suggest", key |-> body, hit |-> FALSE,
                            called |-> done.geocodeCalls > 0, value |-> done],
                  !.pages = Append(aux.pages, done.response.suggestions)]
    /\ UNCHANGED <<now, hasPlacesKey, cityResolveCache, cityContextCache,
                   triviaPoolCache, enrichmentCache, req, seen, client, trip, page>>

NextPaginate ==
    \E extra \in ExtraExclusions :
        \E geoOuts \in GeocodeOutcomesFor(PagedBody(extra)),
           poolOut \in PoolOutcomesFor(PagedBody(extra)) :
            PageRequested(extra, geoOuts, poolOut)

SpecPaginate == InitPaginate /\ [][NextPaginate]_vars

-----------------------------------------------------------------------------
(* Specification of the loading screen: fetches started, cancelled and      *)
(* answered in any order                                                    *)

\* triggerFetch is called at most this many times
MAX_FETCHES == 3

CitiesTyped == {S_Paris, S_Oslo}

Modes == {"quiz", "planning"}

Replies == {"data", "none", "threw"}

InitLoading ==
    /\ now = 0
    /\ hasPlacesKey = TRUE
    /\ cityResolveCache = EmptyMap
    /\ cityContextCache = EmptyMap
    /\ triviaPoolCache = EmptyMap
    /\ poolCache = EmptyMap
    /\ enrichmentCache = EmptyMap
    /\ geocodeInternalCache = EmptyMap
    /\ trip = InitialTrip
    /\ page = IdlePage
    /\ req = [r \in ReqIds |-> IdleReq]
    /\ aux = IdleAux("loading")
    /\ seen = EmptyMap
    /\ client = HomeScreen

TripStarted ==
    /\ client.fetchId < MAX_FETCHES
    /\ \E city \in CitiesTyped, mode \in Modes : HandleStart(city, mode)

QuizContinued == client.fetchId < MAX_FETCHES /\ ContinueToSuggestions

ResponseArrives == \E r \in client.inFlight, reply \in Replies : FetchResponds(r, reply)

NextLoading ==
    \/ TripStarted
    \/ CancelLoading
    \/ QuizBack
    \/ QuizContinued
    \/ ResponseArrives

SpecLoading == InitLoading /\ [][NextLoading]_vars

-----------------------------------------------------------------------------
(* Specification of the itinerary: TripProvider's operations on undoState,  *)
(* called in any order                                                      *)

\* the calls that push onto the history stop at this many entries
MAX_HISTORY == 3

I_tower == Item(<<97>>, <<84, 111, 119, 101, 114>>)
I_bistro == Item(<<98>>, <<66, 105, 115, 116, 114, 111>>)
\* the id of I_tower under another title, and the title of I_bistro without an id
I_towerAgain == Item(<<97>>, <<71, 97, 116, 101>>)
I_bistroAgain == Item(<<>>, <<66, 105, 115, 116, 114, 111>>)
I_custom == Item(<<>>, <<80, 97, 114, 107>>)

ItemsOffered == {I_tower, I_bistro, I_towerAgain, I_bistroAgain, I_custom}

IdsOffered == {<<97>>, <<98>>, <<85, 0>>}

IndicesOffered == -1..2

ListsOffered == {<<>>, <<I_tower, I_bistro>>}

InitItinerary ==
    /\ now = 0
    /\ hasPlacesKey = TRUE
    /\ cityResolveCache = EmptyMap
    /\ cityContextCache = EmptyMap
    /\ triviaPoolCache = EmptyMap
    /\ poolCache = EmptyMap
    /\ enrichmentCache = EmptyMap
    /\ geocodeInternalCache = EmptyMap
    /\ req = [r \in ReqIds |-> IdleReq]
    /\ aux = [exercised |-> "itinerary",
              last |-> ItineraryCall("none", TRUE)]
    /\ seen = EmptyMap
    /\ client = IdleClient
    /\ trip = InitialTrip
    /\ page = IdlePage

HistoryHasRoom == Len(trip.undoState.past) + Len(trip.undoState.future) < MAX_HISTORY

ItemAdded == HistoryHasRoom /\ \E item \in ItemsOffered : AddToItinerary(item)

ItemRemoved == HistoryHasRoom /\ \E id \in IdsOffered : RemoveFromItinerary(id)

ItemMoved ==
    /\ HistoryHasRoom
    /\ \E fromIndex \in IndicesOffered, toIndex \in IndicesOffered :
           ReorderItinerary(fromIndex, toIndex)

ItineraryCleared == HistoryHasRoom /\ ClearItinerary

ItinerarySet == \E items \in ListsOffered : SetItinerary(items)

NextItinerary ==
    \/ ItemAdded
    \/ ItemRemoved
    \/ ItemMoved
    \/ ItineraryCleared
    \/ ItinerarySet
    \/ Undo
    \/ Redo
    \/ ResetTrip

SpecItinerary == InitItinerary /\ [][NextItinerary]_vars

-----------------------------------------------------------------------------
(* Specification of the suggestions page: the screen shown and left, and    *)
(* its enrich requests settling in any order                                *)

MAX_MOUNTS == 2

T_Tower == Shown(<<50>>, S_Tower, S_loading, <<>>)

T_Bistro == Shown(<<51>>, S_Bistro, S_loading, <<>>)

T_Garden == Shown(<<53>>, S_Garden, S_loading, <<>>)

\* a curated place: no placeId
T_Arena == Shown(<<>>, S_Arena, <<68, 48>>, <<>>)

\* a place the server answered from its enrichment cache
T_Louvre == Shown(S_pL, S_Louvre, <<68, 57>>, <<70, 57>>)

\* the lists the loading screen hands over
PageLists == {<<T_Tower, T_Bistro, T_Garden>>, <<T_Tower, T_Arena, T_Louvre>>}

EnrichReplies == {EnrichFailed, EnrichData(<<68, 49>>, <<70, 49>>), EnrichData(<<>>, <<>>)}

InitPage ==
    /\ now = 0
    /\ hasPlacesKey = TRUE
    /\ cityResolveCache = EmptyMap
    /\ cityContextCache = EmptyMap
    /\ triviaPoolCache = EmptyMap
    /\ poolCache = EmptyMap
    /\ enrichmentCache = EmptyMap
    /\ geocodeInternalCache = EmptyMap
    /\ req = [r \in ReqIds |-> IdleReq]
    /\ aux = IdleAux("page")
    /\ seen = EmptyMap
    /\ client = IdleClient
    /\ trip \in {[InitialTrip EXCEPT !.suggestions = list] : list \in PageLists}
    /\ page = IdlePage

ScreenShown == page.mount < MAX_MOUNTS /\ PageMounts

ScreenLeft == PageUnmounts

EnrichReturns ==
    \E p \in 1..Len(page.pools) :
        \E i \in page.pools[p].inFlight, reply \in EnrichReplies : EnrichSettles(p, i, reply)

NextPage == ScreenShown \/ ScreenLeft \/ EnrichReturns

SpecPage == InitPage /\ [][NextPage]_vars

-----------------------------------------------------------------------------
(* Properties of the quiz endpoint *)

Done(r) == req[r].pc = "done"

LastReturned(r) == req[r].returned[Len(req[r].returned)]

GenerationThrew(r) ==
    req[r].returned # <<>> /\ LastReturned(r).kind \in {"threw", "typeError"}

\* the model's text was unparseable, or a list whose candidates were all rejected
NothingValid(r) == req[r].returned # <<>> /\ LastReturned(r) = Returned("ok", 0)

SuppliedPlaceId(r) == Truthy(req[r].body.cityPlaceId)

QuestionTexts(questions) == [k \in 1..Len(questions) |-> questions[k].question]

Normalized(o) == IF o.t = "str" THEN trim(toLowerCase(o.s)) ELSE <<0>>

WellFormed(q) ==
    /\ q.options.t = "arr"
    /\ Len(q.options.a) = 4
    /\ \A i, j \in 1..4 :
           i # j => Normalized(q.options.a[i]) # Normalized(q.options.a[j])
    /\ q.correctIndex \in {Num(0), Num(1), Num(2), Num(3)}
    /\ q.funFact.t = "str"
    /\ Len(trim(q.funFact.s)) >= 5

\* C1: every question of a response and every question stored in the
\* trivia-pool cache has 4 options that are pairwise distinct after
\* lowercasing and trimming, a correctIndex among 0, 1, 2, 3 and a funFact of
\* trimmed length at least 5, whatever JSON values the model supplied.
\* A candidate with correctIndex 1.5 passes the filter and leaves
\* shuffleOptions with correctIndex -1, so this is violated.
C1_WellFormedEverywhere ==
    /\ \A r \in ReqIds :
           Done(r) => \A k \in 1..Len(req[r].response.questions) :
                          WellFormed(req[r].response.questions[k])
    /\ \A key \in DOMAIN triviaPoolCache :
           \A k \in 1..Len(triviaPoolCache[key].questions) :
               WellFormed(triviaPoolCache[key].questions[k])

IsExcluded(r, q) ==
    generateQuestionId(req[r].cityPlaceId, BodyDifficulty(req[r].body),
                       JsToString(q.question)) \in ExcludeSet(req[r].body)

ExcludedReturned(r) ==
    {k \in 1..Len(req[r].response.questions) : IsExcluded(r, req[r].response.questions[k])}

Regenerated(r) ==
    req[r].hit /\ Len(req[r].modelCalls) = 1 /\ req[r].modelCalls[1].phase = "regenerate"

\* C2 as stated: with a place id known, no returned question has a stable id
\* in the caller's exclusion list, on every path.  Violated after a
\* regeneration whose whole batch is excluded.
C2_NoExcludedQuestion ==
    \A r \in ReqIds :
        Done(r) /\ req[r].response.status = 200 /\ req[r].cityPlaceId # <<>>
            => ExcludedReturned(r) = {}

\* C2: with a place id known, a response of generated or cached questions
\* holds no question whose stable id is excluded, except after a regeneration
\* whose every valid question is excluded: then the regenerated batch is
\* served as it is, and every returned question is an excluded one.
C2_ExcludedOnlyAfterRegeneration ==
    \A r \in ReqIds :
        Done(r) /\ req[r].response.status = 200 /\ req[r].cityPlaceId # <<>>
        /\ req[r].response.source # "fallback"
            => \/ ExcludedReturned(r) = {}
               \/ /\ Regenerated(r)
                  /\ ExcludedReturned(r) = 1..Len(req[r].response.questions)

\* the filter dropped some questions of the pool and kept the ones returned
C2_Witness ==
    \E r \in ReqIds :
        /\ Done(r) /\ req[r].response.status = 200 /\ req[r].cityPlaceId # <<>>
        /\ Len(req[r].response.questions) > 0
        /\ Len(req[r].questions) < Len(req[r].allQuestions)
        /\ ExcludedReturned(r) = {}

\* C3: count >= 1, no cityPlaceId, empty exclusion set, resolution without a
\* place id: when the model call throws or yields fewer than min(count, 4)
\* valid questions the response is HTTP 200 with at least one question, all
\* of them from getFallbackQuestions(city), and source "fallback".
C3_FallbackNeverEmpty ==
    \A r \in ReqIds :
        /\ Done(r) /\ req[r].response.status # 400
        /\ BodyCount(req[r].body) >= 1
        /\ ~SuppliedPlaceId(r) /\ req[r].cityPlaceId = <<>>
        /\ ExcludeSet(req[r].body) = {}
        /\ req[r].returned # <<>>
        /\ \/ GenerationThrew(r)
           \/ LastReturned(r).valid < MinOf(BodyCount(req[r].body), POOL_MIN)
        => /\ req[r].response.status = 200
           /\ req[r].response.source = "fallback"
           /\ Len(req[r].response.questions) >= 1
           /\ Range(QuestionTexts(req[r].response.questions))
                  \subseteq Range(QuestionTexts(getFallbackQuestions(req[r].body.city.s)))

\* the model returned one to three valid questions and the fallback was served
C3_Witness ==
    \E r \in ReqIds :
        /\ Done(r) /\ ~SuppliedPlaceId(r) /\ req[r].cityPlaceId = <<>>
        /\ ExcludeSet(req[r].body) = {} /\ BodyCount(req[r].body) >= 1
        /\ req[r].returned # <<>> /\ LastReturned(r).kind = "ok"
        /\ LastReturned(r).valid \in 1..3
        /\ req[r].response.source = "fallback"

\* every curated question and the generic questions for a city
FallbackTexts(city) ==
    UNION {Range(QuestionTexts(CURATED_QUESTIONS(c))) : c \in 1..5}
        \cup Range(QuestionTexts(GenericQuestions(city)))

\* C4: a request whose body carries a non-empty cityPlaceId is never answered
\* with curated or generic questions nor with source "fallback"; when
\* generation throws the answer is HTTP 503 with questions = [],
\* questionIds = [], poolExhausted = false and source "error".
C4_PlaceIdNeverFallback ==
    \A r \in ReqIds :
        Done(r) /\ SuppliedPlaceId(r)
            => /\ req[r].response.source # "fallback"
               /\ \A k \in 1..Len(req[r].response.questions) :
                      req[r].response.questions[k].question
                          \notin FallbackTexts(JsToString(req[r].body.city))
               /\ GenerationThrew(r)
                      => req[r].response =
                             Response(503, <<>>, <<>>, <<>>, <<>>, FALSE, "error")

\* generation threw for a request that carried a place id
C4_Witness ==
    \E r \in ReqIds :
        Done(r) /\ SuppliedPlaceId(r) /\ GenerationThrew(r)
        /\ req[r].response.status = 503

\* C5 as stated: when the model output is unparseable or every candidate is
\* rejected, the answer is no error and no empty array but fallback
\* questions.  Violated when a place id is known.
C5_EmptyResultTriggersFallback ==
    \A r \in ReqIds :
        Done(r) /\ NothingValid(r)
            => /\ req[r].response.status = 200
               /\ req[r].response.questions # <<>>
               /\ req[r].response.source = "fallback"

\* C5: when the model output is unparseable or every candidate is rejected,
\* the answer is HTTP 200; it carries fallback questions when no place id is
\* known and count >= 1, and otherwise an empty questions array with source
\* "openai".
C5_EmptyResultByPlaceId ==
    \A r \in ReqIds :
        Done(r) /\ NothingValid(r)
            => /\ req[r].response.status = 200
               /\ IF req[r].cityPlaceId = <<>> /\ BodyCount(req[r].body) >= 1
                  THEN /\ req[r].response.source = "fallback"
                       /\ Len(req[r].response.questions) >= 1
                  ELSE /\ req[r].response.questions = <<>>
                       /\ req[r].response.source = "openai"

\* nothing valid came back for a request with a known place id
C5_Witness ==
    \E r \in ReqIds :
        Done(r) /\ NothingValid(r) /\ req[r].cityPlaceId # <<>>
        /\ req[r].response.status = 200 /\ req[r].response.questions = <<>>

KeyOf(r) ==
    (IF req[r].cityPlaceId # <<>> THEN req[r].cityPlaceId
     ELSE toLowerCase(req[r].body.city.s)) \o Bar \o BodyDifficulty(req[r].body)

Few(r, questions) == Len(questions) < MinOf(BodyCount(req[r].body), POOL_MIN)

RegenerateCalls(calls) == {k \in 1..Len(calls) : calls[k].phase = "regenerate"}

C6_Step(r) ==
    \* a cache hit whose filtered pool is below the threshold: the entry is
    \* deleted and the model is called to regenerate
    /\ req[r].pc = "lookup" /\ req'[r].hit /\ Few(r, req'[r].questions)
           => /\ req'[r].pc = "awaitRegen"
              /\ KeyOf(r) \notin DOMAIN triviaPoolCache'
              /\ req'[r].modelCalls = <<[phase |-> "regenerate",
                                         requestCount |-> req'[r].modelCalls[1].requestCount]>>
    \* a regeneration is only ever started from such a cache hit
    /\ Cardinality(RegenerateCalls(req'[r].modelCalls))
           > Cardinality(RegenerateCalls(req[r].modelCalls))
           => req[r].pc = "lookup" /\ req'[r].hit /\ Few(r, req'[r].questions)
    \* the regenerated batch ends the request, whatever its size
    /\ req[r].pc = "awaitRegen" /\ req'[r] # req[r]
           => req'[r].pc = "done" /\ req'[r].modelCalls = req[r].modelCalls
    /\ Cardinality(RegenerateCalls(req'[r].modelCalls)) <= 1
    /\ Len(req'[r].modelCalls) <= 1

\* C6: within one request, a cache hit whose filtered pool has fewer than
\* min(count, 4) questions deletes the cache entry and calls the model to
\* regenerate; there is at most one regeneration per request, also when the
\* regenerated batch is again below the threshold, and none when the pool
\* did not come from a cache hit.
C6_RegenerateOnce == [][\A r \in ReqIds : C6_Step(r)]_vars

\* a regenerated batch that is again below the threshold has been served
C6_Witness ==
    \E r \in ReqIds :
        Done(r) /\ Regenerated(r) /\ LastReturned(r).kind = "ok"
        /\ Few(r, req[r].questions) /\ LastReturned(r).valid > 0

C7_Step ==
    \A key \in DOMAIN triviaPoolCache' :
        /\ Len(triviaPoolCache'[key].questions) >= 4
        /\ key \notin DOMAIN triviaPoolCache \/ triviaPoolCache'[key] # triviaPoolCache[key]
               => \E r \in ReqIds :
                      /\ req[r].pc \in {"awaitModel", "awaitRegen"}
                      /\ key = KeyOf(r)
                      /\ LastReturned(r)' = Returned("ok", Len(triviaPoolCache'[key].questions))

\* C7: every entry of the trivia-pool cache holds at least 4 questions, and
\* an entry is only written by a request whose model call returned that many
\* valid questions, under the key (place id if known else lowercased city,
\* difficulty) of that request; a batch of fewer than 4 is never written.
C7_CacheHoldsFullBatches == [][C7_Step]_vars

\* an exhausted entry was deleted and replaced by the regenerated batch
C7_Witness ==
    \E r \in ReqIds :
        Done(r) /\ Regenerated(r) /\ KeyOf(r) \in DOMAIN triviaPoolCache
        /\ LastReturned(r).valid >= 4

\* C9: in an HTTP 200 response poolExhausted is true exactly when the
\* exclusion set has more than 30 distinct entries and the response holds
\* fewer than min(count, 4) questions.
C9_PoolExhaustedExactly ==
    \A r \in ReqIds :
        Done(r) /\ req[r].response.status = 200
            => (req[r].response.poolExhausted
                    <=> /\ Cardinality(ExcludeSet(req[r].body)) > 30
                        /\ Len(req[r].response.questions)
                               < MinOf(BodyCount(req[r].body), 4))

\* more than 30 exclusions and one to three questions returned
C9_Witness ==
    \E r \in ReqIds :
        Done(r) /\ req[r].response.status = 200 /\ req[r].response.poolExhausted
        /\ Len(req[r].response.questions) \in 1..3

-----------------------------------------------------------------------------
(* Properties of the client's loading step *)

\* C10: once the client has handled a response that reports pool exhaustion,
\* the stored seen ids of the city are at most the ids of that response.
\* Violated when the exhausted response holds no question: the loading step
\* returns before it clears the store.
C10_ExhaustionClearsSeen ==
    client.pc \in {"home", "quiz"} /\ client.got.poolExhausted
        => Range(getSeenQuestionIds(client.city)) \subseteq Range(client.got.questionIds)

-----------------------------------------------------------------------------
(* Properties of the caches *)

Age(m, k) == now - m[k].ts

\* resolveCity looked up key in this step (no cityPlaceId in the body)
ResolveLookup(r, key) ==
    /\ req[r].pc = "idle" /\ req'[r].pc = "lookup"
    /\ ~Truthy(req'[r].body.cityPlaceId)
    /\ key = trim(toLowerCase(req'[r].body.city.s))
    /\ key \in DOMAIN cityResolveCache

ResolveServed(r, key) ==
    /\ "resolve" \notin req'[r].called
    /\ req'[r].cityPlaceId = cityResolveCache[key].data.placeId
    /\ req'[r].cityLabel = cityResolveCache[key].data.cityLabel
    /\ cityResolveCache' = cityResolveCache

\* getCityContext looked up key in this step
ContextLookup(r, key) ==
    /\ req[r].pc = "idle" /\ req'[r].pc = "lookup"
    /\ key = req'[r].cityPlaceId
    /\ key \in DOMAIN cityContextCache

ContextServed(r, key) ==
    /\ "context" \notin req'[r].called
    /\ req'[r].poiNames = [k \in 1..Len(cityContextCache[key].data.pois) |->
                              cityContextCache[key].data.pois[k].name]
    /\ cityContextCache' = cityContextCache

\* the quiz handler looked up key in the trivia-pool cache in this step
TriviaLookup(r, key) ==
    /\ req[r].pc = "lookup" /\ req'[r].pc # "lookup"
    /\ key = KeyOf(r)
    /\ key \in DOMAIN triviaPoolCache

TriviaUsed(r, key) ==
    req'[r].hit /\ req'[r].allQuestions = triviaPoolCache[key].questions

TriviaServed(r, key) ==
    TriviaUsed(r, key) /\ req'[r].modelCalls = <<>> /\ triviaPoolCache' = triviaPoolCache

\* every question of the entry that the filter kept is below the threshold:
\* the entry is dropped and the model is called
TriviaExhausted(r, key) ==
    /\ TriviaUsed(r, key)
    /\ req[r].cityPlaceId # <<>>
    /\ Few(r, req'[r].questions)
    /\ key \notin DOMAIN triviaPoolCache'
    /\ Len(req'[r].modelCalls) = 1 /\ req'[r].modelCalls[1].phase = "regenerate"

TriviaMissed(r) ==
    ~req'[r].hit /\ Len(req'[r].modelCalls) = 1 /\ req'[r].modelCalls[1].phase = "generate"

PoolLookup(key) ==
    /\ aux'.last.op = "pool" /\ now' = now
    /\ key = aux'.last.key
    /\ key \in DOMAIN poolCache

PoolServed(key) ==
    /\ aux'.last.hit /\ ~aux'.last.called
    /\ aux'.last.value = poolCache[key].places
    /\ poolCache' = poolCache

\* recomputed: the six queries are run again (they reach the provider only
\* when the key is set) and the entry is rewritten
PoolMissed(key) ==
    /\ ~aux'.last.hit
    /\ aux'.last.called = hasPlacesKey
    /\ poolCache'[key].ts = now

EnrichLookup(key) ==
    /\ aux'.last.op = "enrich" /\ now' = now
    /\ aux'.last.value.status = 200
    /\ key = aux'.last.key
    /\ key \in DOMAIN enrichmentCache

EnrichServed(key) ==
    /\ aux'.last.hit /\ ~aux'.last.called
    /\ aux'.last.value.description = enrichmentCache[key].data.description
    /\ aux'.last.value.funFact = enrichmentCache[key].data.funFact
    /\ enrichmentCache' = enrichmentCache

EnrichMissed == ~aux'.last.hit /\ aux'.last.called

\* the four caches other than the trivia pool, at one step
OtherCachesKeepTTL ==
    /\ \A r \in ReqIds : \A key \in DOMAIN cityResolveCache :
           ResolveLookup(r, key)
               => IF Age(cityResolveCache, key) < CITY_CACHE_TTL
                  THEN ResolveServed(r, key) ELSE "resolve" \in req'[r].called
    /\ \A r \in ReqIds : \A key \in DOMAIN cityContextCache :
           ContextLookup(r, key)
               => IF Age(cityContextCache, key) < CITY_CACHE_TTL
                  THEN ContextServed(r, key) ELSE "context" \in req'[r].called
    /\ \A key \in DOMAIN poolCache :
           PoolLookup(key)
               => IF Age(poolCache, key) < POOL_CACHE_TTL
                  THEN PoolServed(key) ELSE PoolMissed(key)
    /\ \A key \in DOMAIN enrichmentCache :
           EnrichLookup(key)
               => IF Age(enrichmentCache, key) < ENRICHMENT_CACHE_TTL
                  THEN EnrichServed(key) ELSE EnrichMissed

\* C8 as stated: in each of the five caches an entry written at T is served
\* unchanged and without an upstream call at every lookup with t - T < TTL,
\* and is a miss at every lookup with t - T >= TTL.  Violated by the trivia
\* pool, whose entry is dropped within its TTL when the exclusions exhaust it.
C8_ServedUntilTTL ==
    [][/\ OtherCachesKeepTTL
       /\ \A r \in ReqIds : \A key \in DOMAIN triviaPoolCache :
              TriviaLookup(r, key)
                  => IF Age(triviaPoolCache, key) < TRIVIA_POOL_TTL
                     THEN TriviaServed(r, key) ELSE TriviaMissed(r)]_vars

\* C8: in the city-resolve, city-context, places-pool and enrichment caches
\* an entry written at T is served unchanged and without an upstream call at
\* every lookup with t - T < TTL and is recomputed at every lookup with
\* t - T >= TTL; a trivia-pool entry is likewise a miss from t - T >= TTL on,
\* and before that it is used without a model call unless the request knows a
\* place id and the exclusion filter leaves fewer than min(count, 4) of its
\* questions, in which case the entry is deleted and the model is called.
C8_ServedUntilTTLOrExhausted ==
    [][/\ OtherCachesKeepTTL
       /\ \A r \in ReqIds : \A key \in DOMAIN triviaPoolCache :
              TriviaLookup(r, key)
                  => IF Age(triviaPoolCache, key) < TRIVIA_POOL_TTL
                     THEN TriviaServed(r, key) \/ TriviaExhausted(r, key)
                     ELSE TriviaMissed(r)]_vars

\* an enrichment entry with a fun fact, one second before its TTL has passed,
\* has just been served from the cache
C8_Witness ==
    /\ aux.last.op = "enrich" /\ aux.last.hit
    /\ now = ENRICHMENT_CACHE_TTL - 1
    /\ enrichmentCache[aux.last.key].ts = 0
    /\ aux.last.value.funFact = Str(S_fact1889)

-----------------------------------------------------------------------------
(* Properties of the question ids *)

IdsMatch(r) ==
    /\ Len(req[r].response.questionIds) = Len(req[r].response.questions)
    /\ \A i \in 1..Len(req[r].response.questions) :
           req[r].response.questionIds[i] =
               generateQuestionId(req[r].cityPlaceId, BodyDifficulty(req[r].body),
                                  JsToString(req[r].response.questions[i].question))

\* C11 as stated: in an HTTP 200 response questionIds[i] is the stable id of
\* questions[i] when a place id is known, and questionIds is empty when none
\* is known.  Violated by the catch block's fallback after a resolution that
\* found a place id: questions without ids.
C11_IdsForKnownPlace ==
    \A r \in ReqIds :
        Done(r) /\ req[r].response.status = 200
            => IF req[r].cityPlaceId # <<>> THEN IdsMatch(r)
               ELSE req[r].response.questionIds = <<>>

\* C11: in an HTTP 200 response that res.json built outside the catch block,
\* questionIds[i] is the stable id of questions[i] when a place id is known
\* and questionIds is empty when none is known; the fallback response of the
\* catch block always has questionIds = [].
C11_IdsUnlessCaught ==
    \A r \in ReqIds :
        Done(r) /\ req[r].response.status = 200
            => IF req[r].cityPlaceId # <<>> /\ ~GenerationThrew(r) THEN IdsMatch(r)
               ELSE req[r].response.questionIds = <<>>

\* a sliced response (count 3) with a known place id and its three ids
C11_Witness ==
    \E r \in ReqIds :
        /\ Done(r) /\ req[r].response.status = 200 /\ req[r].cityPlaceId # <<>>
        /\ BodyCount(req[r].body) = 3
        /\ Len(req[r].response.questions) = 3
        /\ IdsMatch(r)

-----------------------------------------------------------------------------
(* Properties of the distribution guard *)

AllFirst(batch) ==
    Len(batch) >= 4 /\ \A k \in 1..Len(batch) : batch[k].correctIndex = Num(0)

Guarded(r) == Done(r) /\ req[r].response.status = 200 /\ ~GenerationThrew(r)

\* C13: a batch of 4 or more questions whose correctIndex is 0 throughout is
\* rejected by the guard and each of its questions goes through shuffleOptions
\* again before the response is cut to count; a batch of fewer than 4
\* questions, or with a non-zero correctIndex, reaches the response with
\* every question's option order and correctIndex as they were.
C13_GuardReshufflesAllFirst ==
    \A r \in ReqIds :
        Guarded(r) =>
            LET before == req[r].atGuard
                final == req[r].response.questions
            IN  /\ Len(final) = Len(SliceTo(before, BodyCount(req[r].body)))
                /\ IF AllFirst(before)
                   THEN \A k \in 1..Len(final) :
                            \E js \in DrawSet : final[k] = shuffleOptions(before[k], js)
                   ELSE \A k \in 1..Len(final) : final[k] = before[k]

\* a rejected batch whose reshuffle moved an answer away from position 0
C13_Witness ==
    \E r \in ReqIds :
        /\ Guarded(r) /\ AllFirst(req[r].atGuard)
        /\ \E k \in 1..Len(req[r].response.questions) :
               req[r].response.questions[k].correctIndex # Num(0)

-----------------------------------------------------------------------------
(* Properties of the helper functions *)

Orderings == {p \in [1..4 -> 0..3] : \A i, j \in 1..4 : p[i] = p[j] => i = j}

Reordered(options, p) == [k \in 1..4 |-> options.a[p[k] + 1]]

Shuffled == aux.exercised = "shuffleOptions" /\ aux.returned

\* C12: for a question with 4 options and correctIndex in 0..3, every result
\* of shuffleOptions has the options in one of the 24 orders of the original
\* options and options[correctIndex] equal to the original correct answer;
\* every one of the 24 orders is the result of some draws, so the correct
\* answer can be at each of the 4 positions.
C12_ShufflePermutes ==
    aux.exercised = "shuffleOptions" =>
        LET q == aux.arg
            answer == q.options.a[(q.correctIndex.n \div 2) + 1]
        IN  /\ Shuffled =>
                /\ \E p \in Orderings : aux.value.options.a = Reordered(q.options, p)
                /\ aux.value.correctIndex.t = "num"
                /\ aux.value.correctIndex.n \in {0, 2, 4, 6}
                /\ aux.value.options.a[(aux.value.correctIndex.n \div 2) + 1] = answer
                /\ aux.value.question = q.question /\ aux.value.funFact = q.funFact
            /\ \A p \in Orderings : \E js \in DrawSet :
                   shuffleOptions(q, js).options.a = Reordered(q.options, p)
            /\ \A pos \in 1..4 : \E js \in DrawSet :
                   shuffleOptions(q, js).options.a[pos] = answer

\* the correct answer moved from position 0 to position 3
C12_Witness ==
    /\ Shuffled
    /\ aux.arg.options = FourOptions
    /\ aux.arg.correctIndex = Num(0)
    /\ aux.value.correctIndex = Num(3)
    /\ aux.value.options.a[4] = Str(<<65>>)

\* signed 32-bit arithmetic on numbers in -2^31 .. 2^31 - 1
MaxInt32 == 2147483647

MinInt32 == (-2147483647) - 1

Half == 1073741824

AddInt32(a, b) ==
    IF a > 0 /\ b > 0 /\ a > MaxInt32 - b THEN ((a - Half) - Half) + ((b - Half) - Half)
    ELSE IF a < 0 /\ b < 0 /\ a < MinInt32 - b THEN ((a + Half) + Half) + ((b + Half) + Half)
    ELSE a + b

NegInt32(a) == IF a = MinInt32 THEN MinInt32 ELSE 0 - a

RECURSIVE TimesPow2(_, _)
TimesPow2(a, k) == IF k = 0 THEN a ELSE TimesPow2(AddInt32(a, a), k - 1)

\* h * 31 + c wrapped to a signed 32-bit integer
Fold31(h, c) == IF h = 0 THEN c ELSE AddInt32(AddInt32(TimesPow2(h, 5), NegInt32(h)), c)

\* the fold over the first n characters of raw
RECURSIVE FoldAll(_, _)
FoldAll(raw, n) == IF n = 0 THEN 0 ELSE Fold31(FoldAll(raw, n - 1), raw[n])

\* base-36 digits of -m for m <= 0
RECURSIVE DigitsOfNeg(_)
DigitsOfNeg(m) ==
    IF m = 0 THEN <<>>
    ELSE LET d == (36 - (m % 36)) % 36
         IN  DigitsOfNeg((m + d) \div 36) \o <<IF d < 10 THEN 48 + d ELSE 87 + d>>

AbsInBase36(h) ==
    IF h = 0 THEN <<48>> ELSE DigitsOfNeg(IF h > 0 THEN 0 - h ELSE h)

Hashed == aux.exercised = "generateQuestionId" /\ aux.returned

\* C14: generateQuestionId(placeId, difficulty, text) is the base-36 text of
\* the absolute value of the fold h := h * 31 + charCode (wrapped to signed
\* 32 bits, from 0) over placeId + "|" + difficulty + "|" + text: it carries
\* no minus sign, is the same for the same triple, and is the same for two
\* questions that differ only in options, correctIndex or funFact.
C14_IdIsFoldInBase36 ==
    Hashed =>
        LET a == aux.arg
            raw == a.cityPlaceId \o <<124>> \o a.difficulty \o <<124>> \o a.q.question.s
        IN  /\ aux.value = AbsInBase36(FoldAll(raw, Len(raw)))
            /\ aux.value # <<>>
            /\ \A i \in 1..Len(aux.value) : aux.value[i] \in (48..57) \cup (97..122)
            /\ \A b \in QuestionIdInputs :
                   /\ b.cityPlaceId = a.cityPlaceId /\ b.difficulty = a.difficulty
                   /\ b.q.question = a.q.question
                   => generateQuestionId(b.cityPlaceId, b.difficulty,
                                         JsToString(b.q.question)) = aux.value

\* the fold ends at -2^31, whose absolute value 2^31 is "zik0zk"
C14_Witness ==
    /\ Hashed
    /\ aux.arg.q.question.s = S_minText
    /\ aux.arg.cityPlaceId = S_pA /\ aux.arg.difficulty = S_standard
    /\ aux.value = <<122, 105, 107, 48, 122, 107>>

-----------------------------------------------------------------------------
(* Properties of the suggestions endpoint *)

Suggested == aux.last.op = "suggest"

FromPool == Suggested /\ aux.last.value.answeredAt = "batch"

Listed == aux.last.value.response.suggestions

\* the place of the pool that a listed suggestion was made from
PlaceOf(s) ==
    CHOOSE k \in 1..Len(aux.last.value.pool) : Str(aux.last.value.pool[k].placeId) = s.placeId

MetresFromHotel(k) ==
    haversineKm(aux.last.value.hotelCoords.lat, aux.last.value.hotelCoords.lng,
                aux.last.value.pool[k].lat, aux.last.value.pool[k].lng)

\* the places of the pool that the distance filter keeps
InReach ==
    {k \in 1..Len(aux.last.value.pool) :
        aux.last.value.hotelCoords.found => MetresFromHotel(k) <= MAX_DISTANCE}

Popularity(k) ==
    aux.last.value.pool[k].rating * log10(aux.last.value.pool[k].userRatingCount + 1)

\* floor of ten times the share of kept places that are less popular
Decile(k) ==
    (Cardinality({j \in InReach : Popularity(j) < Popularity(k)}) * 10)
        \div Cardinality(InReach)

\* C15: in a list made from a non-empty pool, of two suggestions the one
\* listed first has the larger or the same popularity decile (over the
\* distance-filtered pool, a number in 0..9) and, when the deciles are the
\* same and the hotel was geocoded, the smaller or the same distance.
C15_RankedByDecileThenDistance ==
    FromPool =>
        \A i, j \in 1..Len(Listed) :
            i < j =>
                LET a == PlaceOf(Listed[i])
                    b == PlaceOf(Listed[j])
                IN  /\ a \in InReach /\ b \in InReach
                    /\ Decile(a) \in 0..9 /\ Decile(b) \in 0..9
                    /\ Decile(a) >= Decile(b)
                    /\ (Decile(a) = Decile(b) /\ aux.last.value.hotelCoords.found)
                           => MetresFromHotel(a) <= MetresFromHotel(b)

\* the Tower 2 km from the hotel is listed before the Louvre 8 km from it,
\* both in one decile, although the pool holds the Louvre first
C15_Witness ==
    /\ FromPool /\ aux.last.value.hotelCoords.found
    /\ Len(Listed) >= 2
    /\ Listed[1].title = S_Tower /\ Listed[2].title = S_Louvre
    /\ aux.last.value.pool[1] = P_Louvre
    /\ Decile(PlaceOf(Listed[1])) = Decile(PlaceOf(Listed[2]))
    /\ MetresFromHotel(PlaceOf(Listed[1])) \in 1900..2100
    /\ MetresFromHotel(PlaceOf(Listed[2])) \in 7900..8100

\* the request's exclusion lists are arrays of strings (nothing is raised)
Answered == Suggested /\ aux.last.value.answeredAt \in {"batch", "emptyBatch"}

ExcludedTitles ==
    {trim(toLowerCase(t.s)) : t \in Range(OrEmptyArray(aux.last.key.exclude).a)}

ExcludedPlaceIds ==
    {p \in Range(OrEmptyArray(aux.last.key.excludePlaceIds).a) : p.t = "str" /\ p.s # <<>>}

Remaining(p) ==
    /\ trim(toLowerCase(p.title)) \notin ExcludedTitles
    /\ Str(p.placeId) \notin ExcludedPlaceIds

\* C16 as stated: from a non-empty ranked pool the response holds exactly the
\* first min(5, n) of the n ranked places that no excluded title and no
\* excluded place id matches, in rank order, and nothing that matches one.
\* Violated when two of those places have one title (the page is short), and
\* when n = 0 for a city with curated places (the page holds curated places).
C16_FirstFiveOfRemaining ==
    (Answered /\ aux.last.value.ranked # <<>>) =>
        LET remaining == SelectSeq(aux.last.value.ranked, Remaining)
            n == Len(remaining)
        IN  /\ Len(Listed) = MinOf(5, n)
            /\ \A k \in 1..Len(Listed) :
                   /\ k <= n
                   /\ Listed[k].title = remaining[k].title
                   /\ Listed[k].placeId = Str(remaining[k].placeId)
            /\ \A k \in 1..Len(Listed) :
                   /\ trim(toLowerCase(Listed[k].title)) \notin ExcludedTitles
                   /\ Listed[k].placeId \notin ExcludedPlaceIds

\* the pool came back empty, or the handler's catch block answered
Degraded ==
    /\ Suggested
    /\ Truthy(aux.last.key.city) /\ aux.last.key.city.t = "str"
    /\ (aux.last.value.pool = <<>> \/ aux.last.value.answeredAt = "catch")

\* C17: a request with a string city whose places pool is empty, or whose
\* handling raised an exception, is answered with HTTP 200 and a list of at
\* most five places of the curated fallback of the matching city, in their
\* order (no place when the city has no curated data), never with an error.
C17_DegradesToCurated ==
    Degraded =>
        LET curated == getCuratedFallback(aux.last.key.city.s)
        IN  /\ aux.last.value.response.status = 200
            /\ Len(Listed) <= 5
            /\ \A k \in 1..Len(Listed) : \E c \in 1..Len(curated) : Listed[k] = curated[c]
            /\ \A i, j \in 1..Len(Listed) :
                   i < j => \E c, d \in 1..Len(curated) :
                                c < d /\ Listed[i] = curated[c] /\ Listed[j] = curated[d]
            /\ (~includes(toLowerCase(aux.last.key.city.s), S_paris)) => Listed = <<>>

\* an exception on a non-empty pool, answered with five curated places
C17_Witness ==
    /\ Degraded
    /\ aux.last.value.answeredAt = "catch" /\ aux.last.value.pool # <<>>
    /\ aux.last.value.response.status = 200
    /\ Len(Listed) = 5
    /\ Listed[1].placeId = Undef

-----------------------------------------------------------------------------
(* Properties of the enrichment endpoint *)

\* "A {category} in {city}.", the category in lower case, "landmark" without one
GenericText(body) ==
    Str(<<65, 32>>
        \o (IF body.category = Undef THEN S_landmark ELSE toLowerCase(body.category.s))
        \o <<32, 105, 110, 32>> \o body.city.s \o <<46>>)

\* the model was called for body and came back with out
Enriched(body, out) ==
    /\ Truthy(body.name) /\ Truthy(body.city)
    /\ EnrichPoi(body, out)
    /\ aux'.last.called

Unparsed(out) == out.kind = "text" /\ out.content.shape \in {"truncated", "empty", "scalar"}

FactOf(out) == IF Len(out.content.items) >= 2 THEN out.content.items[2] ELSE Undef

DescriptionOf(out) == IF Len(out.content.items) >= 1 THEN out.content.items[1] ELSE Undef

\* the output was parsed and its funFact is a text that isValidFunFact rejects
FactRejected(out) ==
    /\ out.kind = "text" /\ ~Unparsed(out)
    /\ FactOf(out).t = "str" /\ FactOf(out).s # <<>> /\ ~isValidFunFact(FactOf(out).s)

\* the output was parsed and its funFact is no text (isValidFunFact raises)
FactRaises(out) ==
    out.kind = "text" /\ ~Unparsed(out) /\ Truthy(FactOf(out)) /\ FactOf(out).t # "str"

IsGeneric(body) ==
    /\ aux'.last.value.status = 200
    /\ aux'.last.value.description = GenericText(body)
    /\ aux'.last.value.funFact = Str(<<>>)

Validated(fact) ==
    /\ aux.exercised = "isValidFunFact"
    /\ aux.arg = fact
    /\ aux.returned

\* the words of a fact: its maximal runs of characters other than spaces
Words(fact) ==
    {i \in 1..Len(fact) : fact[i] # 32 /\ (i = 1 \/ fact[i - 1] = 32)}

\* C19 as stated: isValidFunFact rejects "A popular spot for tourists." and
\* accepts "Built in 1887, the tower weighs 10,100 tons."
C19_RejectsSpotAcceptsBuilt ==
    /\ Validated(S_popularSpot) => aux.value = FALSE
    /\ Validated(S_built1887) => aux.value = TRUE

\* C19 amended: isValidFunFact rejects both "A popular spot for tourists."
\* and "Built in 1887, the tower weighs 10,100 tons.", the latter having 8
\* words, fewer than the 12 required; the same fact continued to 14 words is
\* accepted
C19_RejectsBothFacts ==
    /\ Validated(S_popularSpot) => aux.value = FALSE
    /\ Validated(S_built1887) =>
           aux.value = FALSE /\ Cardinality(Words(S_built1887)) = 8
    /\ Validated(S_built1887Long) =>
           aux.value = TRUE /\ Cardinality(Words(S_built1887Long)) = 14

C19_Witness == Validated(S_built1887) /\ aux.value = FALSE
-----------------------------------------------------------------------------
(* Properties of getCityContext *)

\* the entries of s at the indices in I, in the order of s
AtIndices(s, I) ==
    [k \in 1..Cardinality(I) |->
        s[CHOOSE i \in I : Cardinality({j \in I : j <= i}) = k]]

LongNamed(s) == AtIndices(s, {i \in 1..Len(s) : Len(s[i].name) >= 3})

FirstOfEachId(s) ==
    AtIndices(s, {i \in 1..Len(s) : \A j \in 1..(i - 1) : s[j].placeId # s[i].placeId})

FirstTwenty(s) == [k \in 1..(IF Len(s) < 20 THEN Len(s) ELSE 20) |-> s[k]]

\* what query i found: nothing when it failed or timed out
Found(i) ==
    IF aux.upstream[i].kind = "places" THEN aux.upstream[i].places ELSE <<>>

ExpectedPois == FirstTwenty(FirstOfEachId(LongNamed(Found(1) \o Found(2))))

\* the call missed the cache with a key configured, and has returned
BuiltContext == aux.phase = "returned" /\ aux.called

\* C20: on a cache miss with a credential configured, the context built by
\* getCityContext has as pois the first 20 of (results of query 1 followed by
\* results of query 2) without the names shorter than 3 characters and without
\* the later entries of a repeated placeId, in whichever order the two fetches
\* completed; a failed or timed-out query counts as the empty list
C20_ContextIgnoresCompletionOrder ==
    BuiltContext =>
        /\ aux.value = [cityLabel |-> aux.cityLabel, placeId |-> aux.placeId,
                        pois |-> ExpectedPois]
        /\ cityContextCache[aux.placeId].data = aux.value

C20_Witness ==
    /\ BuiltContext
    /\ aux.order = <<2, 1>>
    /\ aux.upstream[1].kind = "timeout"
    /\ aux.upstream[2].kind = "places"
    /\ aux.value.pois # <<>>
    /\ Len(aux.value.pois) < Len(aux.upstream[2].places)
-----------------------------------------------------------------------------
(* Properties of concurrent quiz requests *)

\* the batches one model call can give after validation, the outcomes that
\* throw left out
ValidatedBatches ==
    {validateTriviaQuestions(ModelCandidates(out), st) :
        out \in {o \in RaceOutcomes : ~ModelThrows(o)}, st \in RaceStreams}

\* a question of the response is this question of the batch, its options
\* possibly reordered
SameQuestion(q, b) ==
    /\ q.question = b.question
    /\ q.funFact = b.funFact
    /\ Len(q.options.a) = Len(b.options.a)
    /\ {q.options.a[k] : k \in 1..Len(q.options.a)}
           = {b.options.a[k] : k \in 1..Len(b.options.a)}

FromBatch(questions, batch) ==
    \A k \in 1..Len(questions) : \E j \in 1..Len(batch) : SameQuestion(questions[k], batch[j])

\* the batch the request answers from: the one it read or generated, or the
\* one it regenerated
OwnBatch(r) == IF Regenerated(r) THEN req[r].freshQuestions ELSE req[r].allQuestions

\* C21: with two requests interleaved on one trivia-pool key, every cache
\* entry is one whole validated batch of a single model call (4 questions or
\* more, never two batches mixed), the batch a request read from the cache or
\* generated is such a single batch, and a response whose source is the cache
\* or the model holds only questions of the batch that request itself read
\* or generated
C21_EntryIsOneBatch ==
    /\ \A key \in DOMAIN triviaPoolCache :
           /\ triviaPoolCache[key].questions \in ValidatedBatches
           /\ Len(triviaPoolCache[key].questions) >= POOL_MIN
    /\ \A r \in ReqIds :
           /\ req[r].allQuestions # <<>> => req[r].allQuestions \in ValidatedBatches
           /\ req[r].freshQuestions # <<>> => req[r].freshQuestions \in ValidatedBatches
           /\ (Done(r) /\ req[r].response.source \in {"cache", "openai"}) =>
                  /\ FromBatch(req[r].response.questions, OwnBatch(r))
                  /\ req[r].response.source = "cache" => req[r].hit

\* request 1 deleted the exhausted entry and awaits its regeneration while
\* request 2, which had missed, has written a fresh entry under the same key
\* and answered from its own batch
C21_Witness ==
    /\ req[1].pc = "awaitRegen"
    /\ req[1].hit
    /\ Done(2)
    /\ ~req[2].hit
    /\ req[2].response.source = "openai"
    /\ req[2].allQuestions # req[1].allQuestions
    /\ Has(triviaPoolCache, triviaCacheKey(S_pA, S_Paris, S_standard))
    /\ triviaPoolCache[triviaCacheKey(S_pA, S_Paris, S_standard)].questions
           = req[2].allQuestions
-----------------------------------------------------------------------------
(* Properties of the suggestions page *)

\* the calls of enrichPool still running, and the one that resolved last
PoolsSeen ==
    {page.pools[p] : p \in 1..Len(page.pools)}
        \cup {page.resolved[k] : k \in 1..Len(page.resolved)}

\* at most 2 invocations of fn in flight in one pool
AtMostTwoInFlight == \A pool \in PoolsSeen : Cardinality(pool.inFlight) <= 2

\* fn invoked at most once for each item, and exactly once when the pool has
\* resolved
OncePerItem ==
    \A pool \in PoolsSeen :
        /\ \A j, k \in 1..Len(pool.calls) : pool.calls[j] = pool.calls[k] => j = k
        /\ PoolFinished(pool) => {pool.calls[k] : k \in 1..Len(pool.calls)} = 1..Len(pool.items)

\* the pool has resolved exactly when every item has been processed
FinishesWhenProcessed ==
    /\ \A p \in 1..Len(page.pools) :
           /\ ~PoolFinished(page.pools[p])
           /\ page.pools[p].settled # 1..Len(page.pools[p].items)
    /\ \A k \in 1..Len(page.resolved) :
           /\ PoolFinished(page.resolved[k])
           /\ page.resolved[k].settled = 1..Len(page.resolved[k].items)

\* the enrich requests in flight, as <<pool, item>>
InFlight == UNION {{<<p, i>> : i \in page.pools[p].inFlight} : p \in 1..Len(page.pools)}

RequestedPlaceId(x) == page.pools[x[1]].items[x[2]].placeId

\* no two requests in flight for one placeId
OneRequestPerPlaceId ==
    \A x, y \in InFlight : RequestedPlaceId(x) = RequestedPlaceId(y) => x = y

\* C22 as stated: every enrichPool(items, fn, 2) has at most 2 invocations of
\* fn in flight, invokes fn exactly once for each item and resolves once every
\* item has been processed, in whichever order the requests settle; and no
\* second enrich request is started for a placeId that has one in flight
C22_TwoAtATimeOncePerPlace ==
    /\ AtMostTwoInFlight
    /\ OncePerItem
    /\ FinishesWhenProcessed
    /\ OneRequestPerPlaceId
-----------------------------------------------------------------------------
(* Properties of updateSuggestion *)

\* updates a caller may pass: both fields of an enrich reply, one field, a
\* field the suggestion does not have yet
UpdatesTried ==
    {[description |-> <<68, 49>>, funFact |-> <<70, 49>>], [funFact |-> <<>>],
     [imageUrl |-> <<85>>]}

\* the place ids shown, and one that is not
PlaceIdsTried == (PlaceIdsOf(trip.suggestions) \ {<<>>}) \cup {<<57>>}

\* after is before with the fields of updates set on the suggestions of
\* placeId, and nothing else changed
OnlyNamedFields(before, after, placeId, updates) ==
    /\ Len(after) = Len(before)
    /\ \A k \in 1..Len(before) :
           IF before[k].placeId = placeId
           THEN /\ DOMAIN after[k] = (DOMAIN before[k]) \cup (DOMAIN updates)
                /\ \A f \in DOMAIN updates : after[k][f] = updates[f]
                /\ \A f \in (DOMAIN before[k]) \ (DOMAIN updates) : after[k][f] = before[k][f]
           ELSE after[k] = before[k]

UpdateIsFramed ==
    \A placeId \in PlaceIdsTried, updates \in UpdatesTried :
        OnlyNamedFields(trip.suggestions,
                        updateSuggestion(trip.suggestions, placeId, updates),
                        placeId, updates)

\* updates for two different place ids give the same list in either order
UpdatesCommute ==
    \A a, b \in PlaceIdsTried, u, v \in UpdatesTried :
        a # b =>
            updateSuggestion(updateSuggestion(trip.suggestions, a, u), b, v)
                = updateSuggestion(updateSuggestion(trip.suggestions, b, v), a, u)

\* a step of the page changes the suggestions of one placeId at most, and of
\* those the description and the funFact only
SettleIsFramed ==
    \E placeId \in PlaceIdsOf(trip.suggestions) :
        \E updates \in {[description |-> reply.description, funFact |-> reply.funFact] :
                           reply \in EnrichReplies} \cup {<<>>} :
            OnlyNamedFields(trip.suggestions, trip'.suggestions, placeId, updates)

\* C23: updateSuggestion(placeId, updates) sets the fields named in updates
\* on the suggestions of that placeId and changes nothing else (length, order,
\* the other fields and the other suggestions stay), so that the updates of
\* two enrich responses for different placeIds are both present whichever
\* arrives first
C23_UpdateTouchesOnlyItsPlace ==
    /\ [](UpdateIsFramed /\ UpdatesCommute)
    /\ [][SettleIsFramed]_vars

\* the response for the second item arrived before the one for the first,
\* and both updates are there
C23_Witness ==
    /\ Len(page.resolved) = 1
    /\ Len(page.resolved[1].arrivals) = 3
    /\ SubSeq(page.resolved[1].arrivals, 1, 2) = <<2, 1>>
    /\ trip.suggestions[1].description = <<68, 49>>
    /\ trip.suggestions[2].description = <<68, 49>>
    /\ trip.suggestions[3].description = S_loading
    /\ trip.suggestions[2].funFact = <<70, 49>>
-----------------------------------------------------------------------------
(* Properties of the itinerary *)

\* the states the four changing operations can make of prev: an addition
\* that appends, a removal, a move and a clear, with every argument offered
ChangesOf(prev) ==
    {addToItinerary(prev, item) :
        item \in {i \in ItemsOffered : ~addThrows(prev, i) /\ ~AlreadyPresent(prev, i)}}
    \cup {removeFromItinerary(prev, id) : id \in {i \in IdsOffered : ~removeThrows(prev)}}
    \cup {reorderItinerary(prev, fromIndex, toIndex) :
             fromIndex \in IndicesOffered, toIndex \in IndicesOffered}
    \cup {clearItinerary(prev)}

UndoRestoresLastChange ==
    \A changed \in ChangesOf(trip.undoState) :
        /\ undo(changed).present = trip.undoState.present
        /\ redo(undo(changed)) = changed

UndoRedoAreInverse ==
    /\ canUndo(trip.undoState) => redo(undo(trip.undoState)) = trip.undoState
    /\ canRedo(trip.undoState) => undo(redo(trip.undoState)) = trip.undoState

NothingToUndoOrRedo ==
    /\ trip.undoState.past = <<>> => undo(trip.undoState) = trip.undoState
    /\ trip.undoState.future = <<>> => redo(trip.undoState) = trip.undoState

CanUndoCanRedo ==
    /\ canUndo(trip.undoState) <=> trip.undoState.past # <<>>
    /\ canRedo(trip.undoState) <=> trip.undoState.future # <<>>

\* C24: in every state the itinerary reaches, undo after any addition that
\* appends, removal, move or clear gives back the list as it was before the
\* change and redo after that undo gives back the changed state; undo then
\* redo and redo then undo restore past, present and future; undo with an
\* empty history and redo with an empty future change nothing; canUndo holds
\* iff the history is non-empty and canRedo iff the future is non-empty.
C24_UndoRedo ==
    /\ UndoRestoresLastChange
    /\ UndoRedoAreInverse
    /\ NothingToUndoOrRedo
    /\ CanUndoCanRedo

\* an undo has just taken back the second of two changes: there is a list to
\* redo, a list to undo further, and the itinerary holds an item
C24_Witness ==
    /\ aux.exercised = "itinerary"
    /\ aux.last.op = "undo"
    /\ Len(trip.undoState.past) = 1
    /\ Len(trip.undoState.future) = 1
    /\ trip.undoState.present = <<I_tower>>
    /\ trip.undoState.future[1] = <<I_tower, I_bistro>>
Pushes(op) ==
    \/ op \in {"remove", "reorder", "clear"}
    \/ op = "add" /\ trip'.undoState # trip.undoState

SameIdOrTitle(i, j) == i.id = j.id \/ i.title = j.title

NoDuplicates(present) ==
    \A k \in 1..Len(present), j \in 1..Len(present) :
        k # j => ~SameIdOrTitle(present[k], present[j])

DuplicateAddChangesNothing ==
    \A item \in ItemsOffered :
        (\E k \in 1..Len(trip.undoState.present) :
             SameIdOrTitle(trip.undoState.present[k], item))
            => addToItinerary(trip.undoState, item) = trip.undoState

\* C28: from an empty itinerary, after additions, removals, moves with
\* in-range indices, clears, undos and redos, no two items of the itinerary
\* have the same id or the same title, and an addToItinerary whose item has
\* an id or a title already present leaves past, present and future as they
\* were.
C28_NoDuplicateItems ==
    (aux.exercised = "itinerary" /\ aux.last.plain) =>
        /\ NoDuplicates(trip.undoState.present)
        /\ DuplicateAddChangesNothing

\* an addToItinerary has just been called while there was a list to redo: it
\* appended nothing, because the itinerary held its id or its title
C28_Witness ==
    /\ aux.exercised = "itinerary"
    /\ aux.last.plain
    /\ aux.last.op = "add"
    /\ trip.undoState.future = <<<<I_tower, I_bistro>>>>
    /\ trip.undoState.present = <<I_tower>>
-----------------------------------------------------------------------------
(* Properties of caller-driven pagination *)

\* the suggestions of the pages before page q
EarlierThan(q) == FlatPages(SubSeq(aux.pages, 1, q - 1))

RepeatsEarlier(s, earlier) ==
    \E k \in 1..Len(earlier) :
        \/ trim(toLowerCase(earlier[k].title)) = trim(toLowerCase(s.title))
        \/ HasPlaceId(s) /\ HasPlaceId(earlier[k]) /\ earlier[k].placeId = s.placeId

NoPageRepeats ==
    \A q \in 1..Len(aux.pages) :
        \A i \in 1..Len(aux.pages[q]) : ~RepeatsEarlier(aux.pages[q][i], EarlierThan(q))

\* the places the endpoint can draw on: the pool and the curated list
PlacesOnOffer == Len(aux.last.value.pool) + Len(getCuratedFallback(aux.city))

NonEmptyPages == Cardinality({q \in 1..Len(aux.pages) : aux.pages[q] # <<>>})

\* C25: for a fixed places pool, when every request excludes the titles and
\* place ids that the earlier pages returned, no page holds a suggestion
\* whose lowercased trimmed title or whose place id was on an earlier page,
\* and the non-empty pages number at most the places of the pool plus the
\* curated places of the city: the page after them is empty.
C25_PagesNeverRepeatAndRunOut ==
    (aux.exercised = "paginate" /\ aux.pages # <<>>) =>
        /\ NoPageRepeats
        /\ NonEmptyPages <= PlacesOnOffer

\* the pool gave two pages, the curated list the pages after them, and the
\* last page came back empty
C25_Witness ==
    /\ aux.exercised = "paginate"
    /\ Len(aux.pages) >= 4
    /\ aux.pages[Len(aux.pages)] = <<>>
    /\ HasPlaceId(aux.pages[1][1])
    /\ HasPlaceId(aux.pages[2][1])
    /\ ~HasPlaceId(aux.pages[3][1])
    /\ aux.last.value.answeredAt = "emptyBatch"
-----------------------------------------------------------------------------
(* Properties of the loading screen *)

\* the step is the arrival of the response of r
ResponseTaken(r) == r \in client.inFlight /\ client'.inFlight = client.inFlight \ {r}

\* the user is waiting for r: it is the latest fetch and the loading screen
\* is up
Awaited(r) == r.id = client.fetchId /\ client.screen = "loading"

LateResponseIgnored ==
    \A r \in client.inFlight :
        (ResponseTaken(r) /\ ~Awaited(r)) =>
            /\ client'.questions = client.questions
            /\ client'.suggestions = client.suggestions
            /\ client'.screen = client.screen

ShownIsLatest ==
    /\ client.screen = "quiz" => client.questions.of = client.fetchId
    /\ client.screen = "suggestions" => client.suggestions.of = client.fetchId

\* C26: the response of a fetch that is no longer the latest one, or that
\* arrives after the user left the loading screen, changes neither the
\* questions, nor the suggestions, nor the screen; the quiz or suggestion
\* list on screen is the one of the most recently triggered fetch.
C26_LateResponseChangesNothing ==
    [](aux.exercised = "loading" => ShownIsLatest) /\ [][LateResponseIgnored]_vars
-----------------------------------------------------------------------------
(* Properties of the enrichment cache writes *)

PlaceKey(body) == JsToString(body.placeId)

\* an entry for the place id of body that has not yet expired
Unexpired(body) ==
    /\ Has(enrichmentCache, PlaceKey(body))
    /\ now - enrichmentCache[PlaceKey(body)].ts < ENRICHMENT_CACHE_TTL

\* the model was called for body and its call returned out
ModelReturned(body, out) ==
    /\ Truthy(body.name) /\ Truthy(body.city)
    /\ ~(Truthy(body.placeId) /\ Unexpired(body))
    /\ out.kind # "throw"

\* the step wrote the response's description and funFact under the place id
\* of body, stamped with the time of the step, and nothing else
WroteResponse(body) ==
    /\ Has(enrichmentCache', PlaceKey(body))
    /\ enrichmentCache'[PlaceKey(body)] =
           [data |-> [description |-> aux'.last.value.description,
                      funFact |-> aux'.last.value.funFact],
            ts |-> now]
    /\ \A k \in DOMAIN enrichmentCache' :
           k # PlaceKey(body) => Has(enrichmentCache, k) /\ enrichmentCache'[k] = enrichmentCache[k]
    /\ \A k \in DOMAIN enrichmentCache : Has(enrichmentCache', k)

-----------------------------------------------------------------------------
(* Properties of geocodeCached *)

\* the lookups of the key of lookup i whose upstream call had settled when
\* lookup i started
SettledBefore(i) ==
    {j \in 1..Len(aux.lookups) :
        /\ aux.lookups[j].key = aux.lookups[i].key
        /\ aux.lookups[j].called /\ aux.lookups[j].settled
        /\ aux.lookups[j].settledAt < aux.lookups[i].startedAt}

LastSettledBefore(i) ==
    CHOOSE j \in SettledBefore(i) :
        \A k \in SettledBefore(i) : aux.lookups[k].settledAt <= aux.lookups[j].settledAt

CallsFor(key) ==
    {j \in 1..Len(aux.lookups) : aux.lookups[j].key = key /\ aux.lookups[j].called}

FirstCallFor(key) ==
    CHOOSE j \in CallsFor(key) : \A k \in CallsFor(key) : j <= k

\* C30 as stated: at most one upstream call per lowercased trimmed address,
\* whatever its outcome, and every later lookup returns the first outcome.
\* Violated by two lookups of one address that start before either call has
\* settled.
C30_OneCallPerAddress ==
    aux.exercised = "geocode" =>
        \A i \in 1..Len(aux.lookups) :
            /\ Cardinality(CallsFor(aux.lookups[i].key)) <= 1
            /\ (aux.lookups[i].settled /\ aux.lookups[FirstCallFor(aux.lookups[i].key)].settled)
                   => aux.lookups[i].result
                          = aux.lookups[FirstCallFor(aux.lookups[i].key)].result

\* C30: a lookup calls upstream iff no call for its lowercased trimmed address
\* had settled when it started, whatever the outcome of that call was
\* (coordinates, no result, timeout or network error); a lookup that does not
\* call returns the outcome of the call for its address that settled last
\* before it.  Lookups that start while a call for the address is in flight
\* each make their own call.
C30_NoCallAfterOneSettled ==
    aux.exercised = "geocode" =>
        \A i \in 1..Len(aux.lookups) :
            /\ aux.lookups[i].called <=> SettledBefore(i) = {}
            /\ ~aux.lookups[i].called
                   => aux.lookups[i].result = aux.lookups[LastSettledBefore(i)].result

\* a call for "Ritz" timed out, and the later lookup of " ritz " returned null
\* without calling
C30_Witness ==
    /\ aux.exercised = "geocode"
    /\ Len(aux.lookups) = 2
    /\ aux.lookups[1].address = S_Ritz /\ aux.lookups[1].called /\ aux.lookups[1].settled
    /\ geocodeInternalCache[toLowerCase(S_Ritz)] = NoCoords
    /\ aux.lookups[2].address = S_ritzPadded
    /\ ~aux.lookups[2].called
    /\ aux.lookups[2].result = NoCoords

====
